---- MODULE Spec2Model ----
(***************************************************************************)
(* payapp-react: the webhook feedback processor (src/src/lib/webhook.ts)   *)
(* and the feedback helpers of the client library (src/unnamed/part_000,   *)
(* imported by webhook.ts as './client').                                  *)
(*                                                                         *)
(* JavaScript is single-threaded: the code between two awaits runs         *)
(* atomically, so every action below is one such run-to-await segment of   *)
(* PayAppWebhookProcessor.process or of the createWebhookHandler closure.  *)
(*                                                                         *)
(* A behaviour is one processor (called directly, or held privately by the *)
(* endpoint closure), one WebhookHandler object, and MaxCalls deliveries    *)
(* made one after another; every call keeps its record, so the state holds *)
(* the history the properties speak about.  Awaited callbacks resolve or   *)
(* reject with an Error object.                                            *)
(*                                                                         *)
(* The other parts of the library have a specification each, over their   *)
(* own variables: SpecClient (PayAppClient.callAPI and its eleven          *)
(* operations), SpecCodec (the form encoding of callAPI and parseResponse),*)
(* SpecKey (generateFeedbackKey), SpecHooks (the REST-backed actions of    *)
(* the three hooks, src/src/hooks/index.ts), SpecSdk (loadPayAppSDK and    *)
(* the SDK-backed functions), SpecOverlap (process calls that start while  *)
(* earlier ones await), SpecTables (the display tables, the error message  *)
(* table and the pay_state predicates) and SpecLoadSDK (usePayApp.loadSDK  *)
(* in a document, with the fairness of the browser).                       *)
(***************************************************************************)
EXTENDS Integers, Sequences, FiniteSets, TLC

\* ------------------------------------------------------------------ bounds
\* number of process calls / endpoint requests made in one behaviour
MaxCalls == 2
\* largest pay_state number fed to the classifier specification
MaxPayState == 99
\* longest string value of the codec specification
MaxValueLen == 3
\* number of action calls made on one hook instance
MaxHookCalls == 2
\* number of loadPayAppSDK calls made in one document
MaxLoads == 2
\* largest pay_type code given to the display table
MaxPayType == 30

\* ------------------------------------------------------- JavaScript values
\* A JavaScript value of one of the three types the feedback fields take.
\* All three fields are always present so that values of different types
\* stay comparable.
Num(n) == [type |-> "number", num |-> n, str |-> ""]
Str(s) == [type |-> "string", num |-> 0, str |-> s]
Undefined == [type |-> "undefined", num |-> 0, str |-> ""]

\* === : same type and same value, no coercion
StrictEquals(a, b) ==
    /\ a.type = b.type
    /\ a.num = b.num
    /\ a.str = b.str

\* `${v}` : template-literal string conversion
TemplateString(v) ==
    CASE v.type = "number" -> ToString(v.num)
      [] v.type = "string" -> v.str
      [] OTHER -> "undefined"

\* v || '' for an optional string field
OrEmpty(v) == IF v.type = "string" /\ v.str # "" THEN v.str ELSE ""

\* ------------------------------------------------------------- vocabulary
EventHandlers ==
    {"onPaymentRequested", "onPaymentCompleted", "onPaymentCancelled", "onPaymentWaiting"}

HandlerNames == EventHandlers \cup {"onError"}

WebhookEventType ==
    {"payment.requested", "payment.completed", "payment.cancelled",
     "payment.waiting", "payment.unknown"}

\* the credentials the processor was constructed with
credentials == [userid |-> "merchant", linkkey |-> "key", linkval |-> "val"]

\* values a feedback's credential fields are drawn from
UserIds == {"merchant", "intruder"}
LinkKeys == {"key", "badkey"}
LinkVals == {"val", "badval"}
\* the credential triples a delivery carries: the configured one and the
\* three that differ from it in exactly one field
CredentialTriples ==
    {t \in [userid : UserIds, linkkey : LinkKeys, linkval : LinkVals] :
        Cardinality({f \in {"userid", "linkkey", "linkval"} : t[f] # credentials[f]}) <= 1}

MulNos == {"12345"}
\* one pay_state per event category, and one unmapped code
PayStates == {1, 4, 9, 10, 99}

\* The deliveries the model is driven with: the configured credentials with
\* every pay_state, and each mismatching triple with a completed payment
\* (validation never looks at pay_state).
Deliveries ==
    {d \in [cred : CredentialTriples, mul_no : MulNos, pay_state : PayStates] :
        d.cred # credentials => d.pay_state = 4}

\* PaymentFeedback records as a typed caller builds them (pay_state: number)
Feedbacks ==
    {[userid |-> d.cred.userid, linkkey |-> d.cred.linkkey, linkval |-> d.cred.linkval,
      mul_no |-> d.mul_no, pay_state |-> Num(d.pay_state),
      var1 |-> Undefined, var2 |-> Undefined] : d \in Deliveries}

NoFeedback ==
    [userid |-> "", linkkey |-> "", linkval |-> "", mul_no |-> "",
     pay_state |-> Undefined, var1 |-> Undefined, var2 |-> Undefined]

\* the form-urlencoded bodies the provider posts: every value is text
WireBodies ==
    {[userid |-> d.cred.userid, linkkey |-> d.cred.linkkey, linkval |-> d.cred.linkval,
      mul_no |-> d.mul_no, pay_state |-> ToString(d.pay_state)] : d \in Deliveries}

\* a body whose read (req.text()) rejects
UnreadableBody ==
    [userid |-> "", linkkey |-> "", linkval |-> "", mul_no |-> "", pay_state |-> "unreadable"]

Methods == {"POST", "GET"}
FormContentType == "application/x-www-form-urlencoded"
\* content-type header values; "" stands for an absent header (null)
ContentTypes == {"application/x-www-form-urlencoded; charset=utf-8", "application/json", ""}

\* the requests the endpoint model is driven with: every POSTed form body,
\* and one request for each way the early checks can turn a request away
Requests ==
    {[method |-> "POST", contentType |-> "application/x-www-form-urlencoded; charset=utf-8", body |-> b] :
        b \in WireBodies \cup {UnreadableBody}}
    \cup {[method |-> m, contentType |-> ct, body |-> CHOOSE b \in WireBodies : b.pay_state = "4" /\ b.userid = credentials.userid /\ b.linkkey = credentials.linkkey /\ b.linkval = credentials.linkval] :
        m \in Methods, ct \in ContentTypes}

NoRequest == [method |-> "", contentType |-> "", body |-> UnreadableBody]

\* a content-type check that accepts any header that is present
IncludesFormContentType_AnyHeader(ct) == ct # ""

\* contentType?.includes('application/x-www-form-urlencoded')
IncludesFormContentType(ct) ==
    \E i \in 1..Len(ct) : \E j \in i..Len(ct) : SubSeq(ct, i, j) = FormContentType

\* ------------------------------------------------------------ thrown values
\* A thrown value; the callbacks of the model throw Error objects only.
ErrorValue(m) == [isError |-> TRUE, msg |-> m]
\* error instanceof Error ? error : new Error('Unknown error')
AsError(e) == IF e.isError THEN e ELSE ErrorValue("Unknown error")

\* how an awaited callback settles: it resolves, or it rejects with an Error
Outcomes == {"resolve", "throw"}

\* the Error a callback rejects with
Thrown(who) == ErrorValue(who \o " failed")

\* ----------------------------------------------------------- pure functions
validateFeedback(feedback, creds) ==
    /\ feedback.userid = creds.userid
    /\ feedback.linkkey = creds.linkkey
    /\ feedback.linkval = creds.linkval

\* a key that leaves the second correlation field out
generateFeedbackKey_WithoutVar2(feedback) ==
    feedback.mul_no \o "_" \o TemplateString(feedback.pay_state) \o "_"
        \o OrEmpty(feedback.var1) \o "_"

generateFeedbackKey(feedback) ==
    feedback.mul_no \o "_" \o TemplateString(feedback.pay_state) \o "_"
        \o OrEmpty(feedback.var1) \o "_" \o OrEmpty(feedback.var2)

\* getEventType with the last case label of the cancelled group left out
getEventType_Without71(feedback) ==
    LET ps == feedback.pay_state
        is(n) == StrictEquals(ps, Num(n))
    IN  CASE is(1) -> "payment.requested"
          [] is(4) -> "payment.completed"
          [] is(8) \/ is(9) \/ is(32) \/ is(64) \/ is(70) -> "payment.cancelled"
          [] is(10) -> "payment.waiting"
          [] OTHER -> "payment.unknown"

\* switch (feedback.pay_state) compares with ===, so only numbers match
getEventType(feedback) ==
    LET ps == feedback.pay_state
        is(n) == StrictEquals(ps, Num(n))
    IN  CASE is(1) -> "payment.requested"
          [] is(4) -> "payment.completed"
          [] is(8) \/ is(9) \/ is(32) \/ is(64) \/ is(70) \/ is(71) -> "payment.cancelled"
          [] is(10) -> "payment.waiting"
          [] OTHER -> "payment.unknown"

\* the dispatch switch with the cancelled case calling the completed handler
HandlerOf_CopyPaste(eventType) ==
    CASE eventType = "payment.requested" -> "onPaymentRequested"
      [] eventType = "payment.completed" -> "onPaymentCompleted"
      [] eventType = "payment.cancelled" -> "onPaymentCompleted"
      [] eventType = "payment.waiting" -> "onPaymentWaiting"
      [] OTHER -> "none"

\* the handler member the dispatch switch of process reads for an event type
HandlerOf(eventType) ==
    CASE eventType = "payment.requested" -> "onPaymentRequested"
      [] eventType = "payment.completed" -> "onPaymentCompleted"
      [] eventType = "payment.cancelled" -> "onPaymentCancelled"
      [] eventType = "payment.waiting" -> "onPaymentWaiting"
      [] OTHER -> "none"

\* body[key] = value for every pair, then the unchecked cast to PaymentFeedback
parseWebhookRequest(body) ==
    [userid |-> body.userid, linkkey |-> body.linkkey, linkval |-> body.linkval,
     mul_no |-> body.mul_no, pay_state |-> Str(body.pay_state),
     var1 |-> Undefined, var2 |-> Undefined]

\* -------------------------------------------------------------------- state
VARIABLES
    mode,           \* "processor": a PayAppWebhookProcessor the host calls itself;
                    \* "endpoint": the closure of createWebhookHandler, whose
                    \* processor is private to it
    handlers,       \* the members of the WebhookHandler object that are set
    processedKeys,  \* PayAppWebhookProcessor.processedKeys
    calls,          \* one record per process call / endpoint request, in start order
    nStarted,       \* how many calls have been started
    cleared,        \* clearProcessedKeys has run since the latest call started
    clearedBefore,  \* clearProcessedKeys ran between the start of the call
                    \* before the latest one and the start of the latest one
    clsIn,          \* classifier specification: the pay_state given to getEventType
    clsOut          \* classifier specification: the event type it returned


\* the API caller (PayAppClient): one operation in progress at a time
VARIABLES
    apiPc,          \* idle, fetch (awaiting fetch), text (awaiting response.text()), done
    apiCall,        \* the operation called and the parameter record given to it
    fetched,        \* the requests the call has handed to fetch, in order
    transport,      \* what the transport answered: status, body text, or a thrown value
    apiOutcome      \* how the operation settled: returned record or thrown value

\* the form codec: URLSearchParams encoding in callAPI, decoding in parseResponse
VARIABLES
    codecPc,        \* off, in, encoded, decoded
    codecIn,        \* the flat parameter record
    codecBody,      \* formData.toString()
    codecOut        \* parseResponse(codecBody)

\* generateFeedbackKey applied to two feedbacks
VARIABLES
    keyIn,          \* the pair of feedbacks
    keyOut          \* the pair of keys

\* one instance of a hook (usePayApp, usePayAppBilling or usePayAppCancel)
VARIABLES
    hook,           \* which hook it is and which callbacks its options supply
    isLoading,      \* useState(false)
    error,          \* useState<PayAppError | null>(null)
    hcalls,         \* one record per call of a REST-backed action, in start order
    hStarted        \* how many action calls have been started

\* the browser document and the hosted SDK
VARIABLES
    windowPayApp,   \* window.PayApp is defined
    scriptTags,     \* the script elements whose src is the SDK URL, in document order
    loadCalls,      \* one record per loadPayAppSDK call, in start order
    sdkLog,         \* the calls the latest SDK-backed function made on window.PayApp, in order
    sdkCall         \* the latest call of an SDK-backed function and how it ended

\* the lookup tables and state predicates of the client library
VARIABLES
    tblIn,          \* table specification: which argument is drawn, and its value
    tblOut          \* table specification: what each function returned for it

\* usePayApp.loadSDK
VARIABLES
    isSDKLoaded,    \* useState(false)
    lsCalls         \* one record per loadSDK call, indexed as its loadPayAppSDK call

webhookVars == <<mode, handlers, processedKeys, calls, nStarted, cleared, clearedBefore, clsIn, clsOut>>
clientVars == <<apiPc, apiCall, fetched, transport, apiOutcome>>
codecVars == <<codecPc, codecIn, codecBody, codecOut>>
keyVars == <<keyIn, keyOut>>
hookVars == <<hook, isLoading, error, hcalls, hStarted>>
sdkVars == <<windowPayApp, scriptTags, loadCalls, sdkLog, sdkCall>>
tableVars == <<tblIn, tblOut>>
loaderVars == <<isSDKLoaded, lsCalls>>
\* the variables a webhook action never touches
restVars == <<clientVars, codecVars, keyVars, hookVars, sdkVars, tableVars, loaderVars>>

vars == <<webhookVars, restVars>>

\* ---------------------------------------------- values before any call
\* no thrown value / the null of an error cell
NoError ==
    [isError |-> FALSE, message |-> "", code |-> Undefined, state |-> Undefined,
     errorMessage |-> Undefined]

NoApiCall == [op |-> "none", params |-> <<>>]
NoTransport ==
    [status |-> 0, textRead |-> FALSE, text |-> "", threw |-> FALSE, thrown |-> NoError]
NoOutcome == [kind |-> "none", error |-> NoError, result |-> <<>>]

\* a PayAppClient right after construction: no operation called yet
ClientInit ==
    /\ apiPc = "idle"
    /\ apiCall = NoApiCall
    /\ fetched = <<>>
    /\ transport = NoTransport
    /\ apiOutcome = NoOutcome

\* the codec specification is not running
CodecOff ==
    /\ codecPc = "off"
    /\ codecIn = <<>>
    /\ codecBody = ""
    /\ codecOut = <<>>

\* the key specification is not running
KeyOff ==
    /\ keyIn = <<>>
    /\ keyOut = <<>>

NoHook == [kind |-> "none", onSuccess |-> FALSE, onError |-> FALSE]

\* no hook instance is mounted
HookOff ==
    /\ hook = NoHook
    /\ isLoading = FALSE
    /\ error = NoError
    /\ hcalls = <<>>
    /\ hStarted = 0

NoSdkCall == [fn |-> "none", params |-> <<>>, present |-> FALSE, outcome |-> "none"]

\* no document is modelled
SdkOff ==
    /\ windowPayApp = FALSE
    /\ scriptTags = <<>>
    /\ loadCalls = <<>>
    /\ sdkLog = <<>>
    /\ sdkCall = NoSdkCall

NoTableResult ==
    [eventType |-> Undefined, completed |-> Undefined, cancelled |-> Undefined,
     stateString |-> Undefined, typeString |-> Undefined, message |-> Undefined]

\* the table specification is not running
TablesOff ==
    /\ tblIn = [kind |-> "none", value |-> Undefined]
    /\ tblOut = NoTableResult

\* no usePayApp instance loads the SDK
LoaderOff ==
    /\ isSDKLoaded = FALSE
    /\ lsCalls = <<>>

Calls == 1..MaxCalls

NoResponse == [status |-> 0, body |-> ""]

NewCall ==
    [pc |-> "idle",             \* idle, handler, onError, outerOnError, done
     fb |-> NoFeedback,         \* the feedback given to process
     req |-> NoRequest,         \* the request given to the endpoint
     processed |-> FALSE,       \* process was entered
     dup |-> FALSE,             \* the duplicate short-circuit was taken
     eventType |-> "none",      \* what getEventType returned
     awaiting |-> "none",       \* the event handler being awaited
     threw |-> FALSE,           \* the awaited event handler rejected
     inv |-> [h \in HandlerNames |-> 0],  \* invocations of each handler
     onErrorArgs |-> <<>>,      \* the arguments of each onError invocation
     marked |-> FALSE,          \* markAsProcessed ran
     result |-> "none",         \* process: none, SUCCESS, ERROR, rejected
     promise |-> "none",        \* endpoint: none, pending, resolved, rejected
     response |-> NoResponse,   \* the Response the endpoint resolved with
     after |-> {},              \* the calls that had finished when this one started
     keysBefore |-> {}]         \* processedKeys when this call started

\* ------------------------------------------- PayAppWebhookProcessor methods
\* isDuplicate looking the payment number up instead of the dedup key
isDuplicate_ByMulNo(feedback, keys) == feedback.mul_no \in keys

isDuplicate(feedback, keys) == generateFeedbackKey(feedback) \in keys

markAsProcessed(feedback, keys) == keys \cup {generateFeedbackKey(feedback)}

\* a clear that leaves the keys in the set
clearProcessedKeys_KeepsKeys ==
    /\ mode = "processor"
    /\ processedKeys' = processedKeys
    /\ cleared' = TRUE
    /\ UNCHANGED <<mode, handlers, calls, nStarted, clearedBefore, clsIn, clsOut, restVars>>

clearProcessedKeys ==
    /\ mode = "processor"
    /\ processedKeys' = {}
    /\ cleared' = TRUE
    /\ UNCHANGED <<mode, handlers, calls, nStarted, clearedBefore, clsIn, clsOut, restVars>>

\* ------------------------------------------------ run-to-await code segments
\* new Response(body, {status}) resolves the promise of the endpoint closure
Respond(r, st, b) ==
    [r EXCEPT !.pc = "done", !.promise = "resolved",
              !.response = [status |-> st, body |-> b]]

\* the catch block of the createWebhookHandler closure
HandlerCatch(r, e) ==
    IF "onError" \in handlers
    THEN [r EXCEPT !.pc = "outerOnError",
                   !.inv["onError"] = @ + 1,
                   !.onErrorArgs = Append(@, [error |-> AsError(e), withFeedback |-> FALSE])]
    ELSE Respond(r, 200, "ERROR")

\* process returns res; the endpoint closure answers 200 with it
Return(r, res) ==
    IF mode = "endpoint"
    THEN Respond([r EXCEPT !.result = res], 200, res)
    ELSE [r EXCEPT !.pc = "done", !.result = res]

\* the promise of process rejects with e; the endpoint closure catches it
Reject(r, e) ==
    IF mode = "endpoint"
    THEN HandlerCatch([r EXCEPT !.result = "rejected"], e)
    ELSE [r EXCEPT !.pc = "done", !.result = "rejected"]

\* the catch block of process
ProcessCatch(r, e) ==
    IF "onError" \in handlers
    THEN [r EXCEPT !.pc = "onError",
                   !.inv["onError"] = @ + 1,
                   !.onErrorArgs = Append(@, [error |-> AsError(e), withFeedback |-> TRUE])]
    ELSE Return(r, "ERROR")

\* process marking the feedback as processed before it dispatches
ProcessEnter_MarkFirst(r, feedback) ==
    LET r0 == [r EXCEPT !.fb = feedback, !.processed = TRUE]
        eventType == getEventType(feedback)
        h == HandlerOf(eventType)
    IN  IF ~validateFeedback(feedback, credentials)
        THEN ProcessCatch(r0, ErrorValue("Invalid webhook credentials"))
        ELSE IF isDuplicate(feedback, processedKeys)
        THEN Return([r0 EXCEPT !.dup = TRUE], "SUCCESS")
        ELSE IF h \in handlers
        THEN [r0 EXCEPT !.pc = "handler", !.eventType = eventType,
                        !.awaiting = h, !.inv[h] = @ + 1, !.marked = TRUE]
        ELSE Return([r0 EXCEPT !.eventType = eventType, !.marked = TRUE], "SUCCESS")

\* process treating an unknown event type as an error
ProcessEnter_UnknownThrows(r, feedback) ==
    LET r0 == [r EXCEPT !.fb = feedback, !.processed = TRUE]
        eventType == getEventType(feedback)
        h == HandlerOf(eventType)
    IN  IF ~validateFeedback(feedback, credentials)
        THEN ProcessCatch(r0, ErrorValue("Invalid webhook credentials"))
        ELSE IF isDuplicate(feedback, processedKeys)
        THEN Return([r0 EXCEPT !.dup = TRUE], "SUCCESS")
        ELSE IF eventType = "payment.unknown"
        THEN ProcessCatch([r0 EXCEPT !.eventType = eventType], ErrorValue("Unknown payment state"))
        ELSE IF h \in handlers
        THEN [r0 EXCEPT !.pc = "handler", !.eventType = eventType,
                        !.awaiting = h, !.inv[h] = @ + 1]
        ELSE Return([r0 EXCEPT !.eventType = eventType, !.marked = TRUE], "SUCCESS")

\* process from its entry to its first await or its return
ProcessEnter(r, feedback) ==
    LET r0 == [r EXCEPT !.fb = feedback, !.processed = TRUE]
        eventType == getEventType(feedback)
        h == HandlerOf(eventType)
    IN  IF ~validateFeedback(feedback, credentials)
        THEN ProcessCatch(r0, ErrorValue("Invalid webhook credentials"))
        ELSE IF isDuplicate(feedback, processedKeys)
        THEN Return([r0 EXCEPT !.dup = TRUE], "SUCCESS")
        ELSE IF h \in handlers
        THEN [r0 EXCEPT !.pc = "handler", !.eventType = eventType,
                        !.awaiting = h, !.inv[h] = @ + 1]
        ELSE Return([r0 EXCEPT !.eventType = eventType, !.marked = TRUE], "SUCCESS")

\* process marking the feedback as processed also when its handler rejected
ProcessResume_MarksOnThrow(r, outcome) ==
    IF outcome = "resolve"
    THEN Return([r EXCEPT !.marked = TRUE], "SUCCESS")
    ELSE ProcessCatch([r EXCEPT !.threw = TRUE, !.marked = TRUE], Thrown(r.awaiting))

\* process after the awaited event handler settled
ProcessResume(r, outcome) ==
    IF outcome = "resolve"
    THEN Return([r EXCEPT !.marked = TRUE], "SUCCESS")
    ELSE ProcessCatch([r EXCEPT !.threw = TRUE], Thrown(r.awaiting))

\* the keys after a segment that left call record r
KeysAfter(r) ==
    IF r.marked THEN markAsProcessed(r.fb, processedKeys) ELSE processedKeys

\* The host delivers one webhook at a time: a call starts only when every
\* earlier call has settled.
NoneInFlight == \A d \in 1..nStarted : calls[d].pc = "done"

Started(c) ==
    [NewCall EXCEPT !.after = {d \in 1..nStarted : calls[d].pc = "done"},
                    !.keysBefore = processedKeys]

\* ------------------------------------------------------------------ actions
\* the host calls processor.process(feedback, handlers)
process(feedback) ==
    /\ mode = "processor"
    /\ nStarted < MaxCalls
    /\ NoneInFlight
    /\ LET c == nStarted + 1
           r == ProcessEnter(Started(c), feedback)
       IN  /\ calls' = [calls EXCEPT ![c] = r]
           /\ processedKeys' = KeysAfter(r)
    /\ nStarted' = nStarted + 1
    /\ cleared' = FALSE
    /\ clearedBefore' = cleared
    /\ UNCHANGED <<mode, handlers, clsIn, clsOut, restVars>>

\* the closure returned by createWebhookHandler is called with a request
createWebhookHandler(req) ==
    /\ mode = "endpoint"
    /\ nStarted < MaxCalls
    /\ NoneInFlight
    /\ LET c == nStarted + 1
           r0 == [Started(c) EXCEPT !.req = req, !.promise = "pending"]
           r == IF req.method # "POST"
                THEN Respond(r0, 405, "Method not allowed")
                ELSE IF ~IncludesFormContentType(req.contentType)
                THEN Respond(r0, 400, "Invalid content type")
                ELSE IF req.body = UnreadableBody
                THEN HandlerCatch(r0, ErrorValue("body read failed"))
                ELSE ProcessEnter(r0, parseWebhookRequest(req.body))
       IN  /\ calls' = [calls EXCEPT ![c] = r]
           /\ processedKeys' = KeysAfter(r)
    /\ nStarted' = nStarted + 1
    /\ cleared' = FALSE
    /\ clearedBefore' = cleared
    /\ UNCHANGED <<mode, handlers, clsIn, clsOut, restVars>>

\* the event handler awaited by call c settles
HandlerSettles(c, outcome) ==
    /\ calls[c].pc = "handler"
    /\ LET r == ProcessResume(calls[c], outcome)
       IN  /\ calls' = [calls EXCEPT ![c] = r]
           /\ processedKeys' = KeysAfter(r)
    /\ UNCHANGED <<mode, handlers, nStarted, cleared, clearedBefore, clsIn, clsOut, restVars>>

\* the onError awaited by the catch block of process settles
OnErrorSettles(c, outcome) ==
    /\ calls[c].pc = "onError"
    /\ calls' = [calls EXCEPT ![c] =
            IF outcome = "resolve"
            THEN Return(calls[c], "ERROR")
            ELSE Reject(calls[c], Thrown("onError"))]
    /\ UNCHANGED <<mode, handlers, processedKeys, nStarted, cleared, clearedBefore, clsIn, clsOut, restVars>>

\* the onError awaited by the catch block of the endpoint closure settles
OuterOnErrorSettles(c, outcome) ==
    /\ calls[c].pc = "outerOnError"
    /\ calls' = [calls EXCEPT ![c] =
            IF outcome = "resolve"
            THEN Respond(calls[c], 200, "ERROR")
            ELSE [calls[c] EXCEPT !.pc = "done", !.promise = "rejected"]]
    /\ UNCHANGED <<mode, handlers, processedKeys, nStarted, cleared, clearedBefore, clsIn, clsOut, restVars>>

Init ==
    /\ mode \in {"processor", "endpoint"}
    /\ ClientInit /\ CodecOff /\ KeyOff /\ HookOff /\ SdkOff /\ TablesOff /\ LoaderOff
    /\ handlers \in SUBSET HandlerNames
    /\ processedKeys = {}
    /\ calls = [c \in Calls |-> NewCall]
    /\ nStarted = 0
    /\ cleared = FALSE
    /\ clearedBefore = FALSE
    /\ clsIn = Undefined
    /\ clsOut = "none"

Next ==
    \/ \E feedback \in Feedbacks : process(feedback)
    \/ \E req \in Requests : createWebhookHandler(req)
    \/ \E c \in Calls, outcome \in Outcomes : HandlerSettles(c, outcome)
    \/ \E c \in Calls, outcome \in Outcomes : OnErrorSettles(c, outcome)
    \/ \E c \in Calls, outcome \in Outcomes : OuterOnErrorSettles(c, outcome)
    \/ clearProcessedKeys

Spec == Init /\ [][Next]_vars

\* -------------------------------------------- classifier specification
PayStateInputs ==
    {Num(n) : n \in -1..MaxPayState} \cup {Str(ToString(n)) : n \in -1..MaxPayState}

ClassifyInit ==
    /\ clsIn \in PayStateInputs
    /\ ClientInit /\ CodecOff /\ KeyOff /\ HookOff /\ SdkOff /\ TablesOff /\ LoaderOff
    /\ clsOut = "none"
    /\ mode = "processor"
    /\ handlers = {}
    /\ processedKeys = {}
    /\ calls = [c \in Calls |-> NewCall]
    /\ nStarted = 0
    /\ cleared = FALSE
    /\ clearedBefore = FALSE

\* processor.getEventType(feedback)
Classify ==
    /\ clsOut = "none"
    /\ clsOut' = getEventType([NoFeedback EXCEPT !.pay_state = clsIn])
    /\ UNCHANGED <<mode, handlers, processedKeys, calls, nStarted, cleared, clearedBefore, clsIn, restVars>>

ClassifyNext == Classify

SpecClassify == ClassifyInit /\ [][ClassifyNext]_vars

\* ================================================================ form codec
\* the webhook variables of a behaviour that makes no webhook call
WebhookOff ==
    /\ mode = "processor"
    /\ handlers = {}
    /\ processedKeys = {}
    /\ calls = [c \in Calls |-> NewCall]
    /\ nStarted = 0
    /\ cleared = FALSE
    /\ clearedBefore = FALSE
    /\ clsIn = Undefined
    /\ clsOut = "none"

Null == [type |-> "null", num |-> 0, str |-> ""]

\* A JavaScript object with string keys: its own entries in insertion order.
Entry(k, v) == [key |-> k, value |-> v]
HasKey(obj, k) == \E i \in 1..Len(obj) : obj[i].key = k
\* obj[k], undefined when the key is absent
Get(obj, k) ==
    IF HasKey(obj, k)
    THEN obj[CHOOSE i \in 1..Len(obj) : obj[i].key = k].value
    ELSE Undefined
\* obj[k] = v : an existing key keeps its position
Put(obj, k, v) ==
    IF HasKey(obj, k)
    THEN [i \in 1..Len(obj) |-> IF obj[i].key = k THEN Entry(k, v) ELSE obj[i]]
    ELSE Append(obj, Entry(k, v))
\* { ...base, ...extra } : the entries of extra are assigned over base, in order
RECURSIVE ObjectSpread(_, _)
ObjectSpread(base, extra) ==
    IF extra = <<>> THEN base
    ELSE ObjectSpread(Put(base, Head(extra).key, Head(extra).value), Tail(extra))

\* String(value) for the values a parameter record holds
String(v) ==
    CASE v.type = "number" -> ToString(v.num)
      [] v.type = "string" -> v.str
      [] v.type = "null" -> "null"
      [] OTHER -> "undefined"

First(s) == SubSeq(s, 1, 1)
Rest(s) == SubSeq(s, 2, Len(s))

\* a serializer that writes every character as it is
EncodeChar_Raw(ch) == ch

\* application/x-www-form-urlencoded serializer, one character: a space
\* becomes '+', letters, digits and * - . _ stay, every other character
\* is percent-encoded
EncodeChar(ch) ==
    CASE ch = " " -> "+"
      [] ch = "&" -> "%26"
      [] ch = "=" -> "%3D"
      [] ch = "+" -> "%2B"
      [] ch = "%" -> "%25"
      [] ch = "?" -> "%3F"
      [] ch = "!" -> "%21"
      [] OTHER -> ch

RECURSIVE EncodeComponent(_)
EncodeComponent(s) ==
    IF s = "" THEN "" ELSE EncodeChar(First(s)) \o EncodeComponent(Rest(s))

\* the percent escapes the parser of the model knows, and their characters
PercentEscapes ==
    [h \in {"26", "3D", "2B", "25", "3F", "21", "20"} |->
        CASE h = "26" -> "&" [] h = "3D" -> "=" [] h = "2B" -> "+"
          [] h = "25" -> "%" [] h = "3F" -> "?" [] h = "21" -> "!" [] OTHER -> " "]

\* application/x-www-form-urlencoded parser, one name or value: '+' becomes
\* a space, %XX becomes its character, a '%' not followed by an escape stays
RECURSIVE DecodeComponent(_)
DecodeComponent(s) ==
    IF s = "" THEN ""
    ELSE IF First(s) = "+" THEN " " \o DecodeComponent(Rest(s))
    ELSE IF First(s) = "%" /\ Len(s) >= 3 /\ SubSeq(s, 2, 3) \in DOMAIN PercentEscapes
    THEN PercentEscapes[SubSeq(s, 2, 3)] \o DecodeComponent(SubSeq(s, 4, Len(s)))
    ELSE First(s) \o DecodeComponent(Rest(s))

\* position of the first ch in s, 0 when there is none
IndexOf(s, ch) ==
    IF \E i \in 1..Len(s) : SubSeq(s, i, i) = ch
    THEN CHOOSE i \in 1..Len(s) :
            /\ SubSeq(s, i, i) = ch
            /\ \A j \in 1..(i - 1) : SubSeq(s, j, j) # ch
    ELSE 0

\* formData.append for every entry whose value is neither undefined nor null
RECURSIVE AppendEntries(_)
AppendEntries(params) ==
    IF params = <<>> THEN <<>>
    ELSE IF Head(params).value.type \in {"undefined", "null"}
    THEN AppendEntries(Tail(params))
    ELSE <<Entry(Head(params).key, String(Head(params).value))>>
            \o AppendEntries(Tail(params))

\* URLSearchParams.prototype.toString: name=value pairs joined by '&'
RECURSIVE URLSearchParamsToString(_)
URLSearchParamsToString(list) ==
    IF list = <<>> THEN ""
    ELSE EncodeComponent(Head(list).key) \o "=" \o EncodeComponent(Head(list).value)
            \o (IF Tail(list) = <<>> THEN "" ELSE "&" \o URLSearchParamsToString(Tail(list)))

\* the body callAPI sends for a parameter record
FormBody(params) == URLSearchParamsToString(AppendEntries(params))

\* one name=value piece of a query string
ParsePiece(piece) ==
    LET i == IndexOf(piece, "=")
    IN  IF i = 0
        THEN Entry(DecodeComponent(piece), "")
        ELSE Entry(DecodeComponent(SubSeq(piece, 1, i - 1)),
                   DecodeComponent(SubSeq(piece, i + 1, Len(piece))))

\* the pieces between the '&' of a query string; empty pieces are dropped
RECURSIVE ParseQuery(_)
ParseQuery(q) ==
    LET i == IndexOf(q, "&")
        piece == IF i = 0 THEN q ELSE SubSeq(q, 1, i - 1)
        rest == IF i = 0 THEN "" ELSE SubSeq(q, i + 1, Len(q))
    IN  IF q = "" THEN <<>>
        ELSE (IF piece = "" THEN <<>> ELSE <<ParsePiece(piece)>>) \o ParseQuery(rest)

\* new URLSearchParams(text): one leading '?' is dropped
URLSearchParams(text) ==
    IF text # "" /\ First(text) = "?" THEN ParseQuery(Rest(text)) ELSE ParseQuery(text)

\* params.forEach((value, key) => { result[key] = value })
RECURSIVE AssignAll(_, _)
AssignAll(result, list) ==
    IF list = <<>> THEN result
    ELSE AssignAll(Put(result, Head(list).key, Str(Head(list).value)), Tail(list))

parseResponse(text) == AssignAll(<<>>, URLSearchParams(text))

\* ------------------------------------------------ codec specification
\* the characters the values of the codec specification are made of
CodecAlphabet == {"a", " ", "+", "&", "=", "%", "2", "6"}

\* every string over CodecAlphabet of length at most n
RECURSIVE StringsUpTo(_)
StringsUpTo(n) ==
    IF n = 0 THEN {""}
    ELSE LET shorter == StringsUpTo(n - 1)
         IN  shorter \cup {s \o ch : s \in shorter, ch \in CodecAlphabet}

\* the values of the first entry: skipped values, numbers, every short string
CodecValues ==
    {Undefined, Null, Num(0), Num(-7)} \cup {Str(s) : s \in StringsUpTo(MaxValueLen)}

\* flat parameter records: one entry, or two with the second from a few values
FlatRecords ==
    {<<Entry(k, v)>> : k \in {"k", "a&b=c"}, v \in CodecValues}
    \cup {<<Entry(k, v), Entry("x y", w)>> :
            k \in {"k", "a&b=c"}, v \in CodecValues,
            w \in {Undefined, Null, Num(1000), Str(""), Str("b")}}

CodecInit ==
    /\ codecPc = "in"
    /\ codecIn \in FlatRecords
    /\ codecBody = ""
    /\ codecOut = <<>>
    /\ WebhookOff /\ ClientInit /\ KeyOff /\ HookOff /\ SdkOff /\ TablesOff /\ LoaderOff

\* callAPI: formData built from the record, body: formData.toString()
Encode ==
    /\ codecPc = "in"
    /\ codecBody' = FormBody(codecIn)
    /\ codecPc' = "encoded"
    /\ UNCHANGED <<codecIn, codecOut, webhookVars, clientVars, keyVars, hookVars, sdkVars, tableVars, loaderVars>>

\* parseResponse applied to that body
Decode ==
    /\ codecPc = "encoded"
    /\ codecOut' = parseResponse(codecBody)
    /\ codecPc' = "decoded"
    /\ UNCHANGED <<codecIn, codecBody, webhookVars, clientVars, keyVars, hookVars, sdkVars, tableVars, loaderVars>>

CodecNext == Encode \/ Decode

SpecCodec == CodecInit /\ [][CodecNext]_vars

\* ================================================================ API caller
PAYAPP_API_URL == "https://api.payapp.kr/oapi/apiLoad.html"

\* createError(message, code)
createError(message, code) ==
    [isError |-> TRUE, message |-> message, code |-> Str(code), state |-> Str("0"),
     errorMessage |-> Str(message)]

\* what fetch or response.text() can reject with: a TypeError, an Error
\* object of the runtime that has a code property of its own, and a thrown
\* value that is no Error object
ThrownValues ==
    {[isError |-> TRUE, message |-> "Failed to fetch", code |-> Undefined,
      state |-> Undefined, errorMessage |-> Undefined],
     [isError |-> TRUE, message |-> "socket hang up", code |-> Str("ECONNRESET"),
      state |-> Undefined, errorMessage |-> Undefined],
     [isError |-> FALSE, message |-> "timeout", code |-> Undefined,
      state |-> Undefined, errorMessage |-> Undefined]}

Statuses == {200, 404, 500}
\* response.ok
Ok(status) == status \in 200..299

\* bodies the provider answers with
ResponseTexts ==
    {"state=1&mul_no=77&payurl=x", "state=0&errorMessage=bad+card", "state=0",
     "state=0&errorMessage=", "", "state=2", "state=1&state=0", "errorMessage=oops"}

\* the parameter records the callers of the model pass
ParamRecords ==
    {<<>>,
     <<Entry("goodname", Str("tea & co")), Entry("price", Num(1000))>>,
     <<Entry("cmd", Str("paycancel")), Entry("mul_no", Str("77"))>>,
     <<Entry("userid", Str("intruder")), Entry("price", Num(1000))>>,
     <<Entry("cmd", Undefined), Entry("memo", Null)>>}

FetchOutcomes ==
    {[kind |-> "reject", status |-> 0, thrown |-> e] : e \in ThrownValues}
    \cup {[kind |-> "response", status |-> st, thrown |-> NoError] : st \in Statuses}

TextOutcomes ==
    {[kind |-> "reject", text |-> "", thrown |-> e] : e \in ThrownValues}
    \cup {[kind |-> "text", text |-> t, thrown |-> NoError] : t \in ResponseTexts}

\* 'code' in error, 'state' in error
HasCode(e) == e.code.type # "undefined"
HasState(e) == e.state.type # "undefined"

isPayAppError(e) ==
    /\ e.isError
    /\ HasCode(e)
    /\ HasState(e)
    /\ StrictEquals(e.state, Str("0"))

\* the operation rejects with e
ApiThrow(e) == [kind |-> "thrown", error |-> e, result |-> <<>>]
\* the operation resolves with the parsed record
ApiReturn(result) == [kind |-> "returned", error |-> NoError, result |-> result]

\* the catch block of callAPI
CallCatch(e) ==
    IF e.isError /\ HasCode(e)
    THEN ApiThrow(e)
    ELSE ApiThrow(createError(IF e.isError THEN e.message ELSE "Unknown error", "UNKNOWN"))

\* result.errorMessage || 'PayApp API error'
ErrorMessageOr(result) ==
    LET m == Get(result, "errorMessage")
    IN  IF m.type = "string" /\ m.str # "" THEN m.str ELSE "PayApp API error"

\* callAPI handing the request to fetch twice
callAPI_SendsTwice(params) ==
    /\ apiPc \in {"idle", "done"}
    /\ fetched' = <<[url |-> PAYAPP_API_URL, method |-> "POST",
                     contentType |-> FormContentType, body |-> FormBody(params)],
                    [url |-> PAYAPP_API_URL, method |-> "POST",
                     contentType |-> FormContentType, body |-> FormBody(params)]>>
    /\ transport' = NoTransport
    /\ apiOutcome' = NoOutcome
    /\ apiPc' = "fetch"
    /\ UNCHANGED <<webhookVars, codecVars, keyVars, hookVars, sdkVars, tableVars, loaderVars>>

\* callAPI from its entry to the awaited fetch
callAPI(params) ==
    /\ apiPc \in {"idle", "done"}
    /\ fetched' = <<[url |-> PAYAPP_API_URL, method |-> "POST",
                     contentType |-> FormContentType, body |-> FormBody(params)]>>
    /\ transport' = NoTransport
    /\ apiOutcome' = NoOutcome
    /\ apiPc' = "fetch"
    /\ UNCHANGED <<webhookVars, codecVars, keyVars, hookVars, sdkVars, tableVars, loaderVars>>

\* cmd and userid, then the caller's entries spread over them
Merged(tag, params) ==
    ObjectSpread(<<Entry("cmd", Str(tag)), Entry("userid", Str(credentials.userid))>>, params)

requestPayment(params) ==
    /\ apiCall' = [op |-> "requestPayment", params |-> params]
    /\ callAPI(Merged("payrequest", params))

cancelPayment(params) ==
    /\ apiCall' = [op |-> "cancelPayment", params |-> params]
    /\ callAPI(ObjectSpread(<<Entry("cmd", Str("paycancel")),
                              Entry("userid", Str(credentials.userid)),
                              Entry("linkkey", Str(credentials.linkkey))>>, params))

registerBill(params) ==
    /\ apiCall' = [op |-> "registerBill", params |-> params]
    /\ callAPI(Merged("billRegist", params))

deleteBill(params) ==
    /\ apiCall' = [op |-> "deleteBill", params |-> params]
    /\ callAPI(Merged("billDelete", params))

payWithBill(params) ==
    /\ apiCall' = [op |-> "payWithBill", params |-> params]
    /\ callAPI(Merged("billPay", params))

registerRecurringPayment(params) ==
    /\ apiCall' = [op |-> "registerRecurringPayment", params |-> params]
    /\ callAPI(Merged("rebillRegist", params))

cancelRecurringPayment(params) ==
    /\ apiCall' = [op |-> "cancelRecurringPayment", params |-> params]
    /\ callAPI(Merged("rebillCancel", params))

stopRecurringPayment(params) ==
    /\ apiCall' = [op |-> "stopRecurringPayment", params |-> params]
    /\ callAPI(Merged("rebillStop", params))

startRecurringPayment(params) ==
    /\ apiCall' = [op |-> "startRecurringPayment", params |-> params]
    /\ callAPI(Merged("rebillStart", params))

issueCashReceipt(params) ==
    /\ apiCall' = [op |-> "issueCashReceipt", params |-> params]
    /\ callAPI(Merged("cashReceiptIssue", params))

cancelCashReceipt(params) ==
    /\ apiCall' = [op |-> "cancelCashReceipt", params |-> params]
    /\ callAPI(Merged("cashReceiptCancel", params))

\* the awaited fetch settles; callAPI runs to the awaited response.text()
\* or to its end, parsing the body whatever the status
FetchSettles_IgnoreStatus(o) ==
    /\ apiPc = "fetch"
    /\ IF o.kind = "reject"
       THEN /\ transport' = [transport EXCEPT !.threw = TRUE, !.thrown = o.thrown]
            /\ apiOutcome' = CallCatch(o.thrown)
            /\ apiPc' = "done"
       ELSE /\ transport' = [transport EXCEPT !.status = o.status]
            /\ apiOutcome' = apiOutcome
            /\ apiPc' = "text"
    /\ UNCHANGED <<apiCall, fetched, webhookVars, codecVars, keyVars, hookVars, sdkVars, tableVars, loaderVars>>

\* the awaited fetch settles; callAPI runs to the awaited response.text()
\* or to its end
FetchSettles(o) ==
    /\ apiPc = "fetch"
    /\ IF o.kind = "reject"
       THEN /\ transport' = [transport EXCEPT !.threw = TRUE, !.thrown = o.thrown]
            /\ apiOutcome' = CallCatch(o.thrown)
            /\ apiPc' = "done"
       ELSE /\ transport' = [transport EXCEPT !.status = o.status]
            /\ IF ~Ok(o.status)
               THEN /\ apiOutcome' =
                        CallCatch(createError("HTTP error! status: " \o ToString(o.status),
                                              ToString(o.status)))
                    /\ apiPc' = "done"
               ELSE /\ apiOutcome' = apiOutcome
                    /\ apiPc' = "text"
    /\ UNCHANGED <<apiCall, fetched, webhookVars, codecVars, keyVars, hookVars, sdkVars, tableVars, loaderVars>>

\* the awaited response.text() settles; callAPI runs to its end
TextSettles(o) ==
    /\ apiPc = "text"
    /\ IF o.kind = "reject"
       THEN /\ transport' = [transport EXCEPT !.threw = TRUE, !.thrown = o.thrown]
            /\ apiOutcome' = CallCatch(o.thrown)
       ELSE /\ transport' = [transport EXCEPT !.textRead = TRUE, !.text = o.text]
            /\ LET result == parseResponse(o.text)
               IN  apiOutcome' =
                       IF StrictEquals(Get(result, "state"), Str("0"))
                       THEN CallCatch(createError(ErrorMessageOr(result), "0"))
                       ELSE ApiReturn(result)
    /\ apiPc' = "done"
    /\ UNCHANGED <<apiCall, fetched, webhookVars, codecVars, keyVars, hookVars, sdkVars, tableVars, loaderVars>>

ClientSpecInit ==
    /\ ClientInit
    /\ WebhookOff /\ CodecOff /\ KeyOff /\ HookOff /\ SdkOff /\ TablesOff /\ LoaderOff

ClientNext ==
    \/ \E params \in ParamRecords : requestPayment(params)
    \/ \E params \in ParamRecords : cancelPayment(params)
    \/ \E params \in ParamRecords : registerBill(params)
    \/ \E params \in ParamRecords : deleteBill(params)
    \/ \E params \in ParamRecords : payWithBill(params)
    \/ \E params \in ParamRecords : registerRecurringPayment(params)
    \/ \E params \in ParamRecords : cancelRecurringPayment(params)
    \/ \E params \in ParamRecords : stopRecurringPayment(params)
    \/ \E params \in ParamRecords : startRecurringPayment(params)
    \/ \E params \in ParamRecords : issueCashReceipt(params)
    \/ \E params \in ParamRecords : cancelCashReceipt(params)
    \/ \E o \in FetchOutcomes : FetchSettles(o)
    \/ \E o \in TextOutcomes : TextSettles(o)

SpecClient == ClientSpecInit /\ [][ClientNext]_vars

\* ================================================== key specification
\* payment numbers and correlation values, with and without the separator
KeyStrings == {"", "1", "9", "_", "1_4"}

KeyFeedbacks ==
    {[NoFeedback EXCEPT !.mul_no = m, !.pay_state = Num(ps), !.var1 = v1, !.var2 = v2] :
        m \in KeyStrings, ps \in {4, 9},
        v1 \in {Undefined} \cup {Str(s) : s \in KeyStrings},
        v2 \in {Undefined, Str(""), Str("1"), Str("_")}}

KeyInit ==
    /\ keyIn \in KeyFeedbacks \X KeyFeedbacks
    /\ keyOut = <<>>
    /\ WebhookOff /\ ClientInit /\ CodecOff /\ HookOff /\ SdkOff /\ TablesOff /\ LoaderOff

\* generateFeedbackKey applied to both feedbacks
GenerateKeys ==
    /\ keyOut = <<>>
    /\ keyOut' = <<generateFeedbackKey(keyIn[1]), generateFeedbackKey(keyIn[2])>>
    /\ UNCHANGED <<keyIn, webhookVars, clientVars, codecVars, hookVars, sdkVars, tableVars, loaderVars>>

KeyNext == GenerateKeys

SpecKey == KeyInit /\ [][KeyNext]_vars

\* ===================================================================== hooks
\* the REST-backed actions of each hook
HookActions ==
    [k \in {"usePayApp", "usePayAppBilling", "usePayAppCancel"} |->
        CASE k = "usePayApp" -> {"requestPaymentAPI", "requestRecurringPaymentAPI"}
          [] k = "usePayAppBilling" -> {"registerBill", "deleteBill", "payWithBill"}
          [] OTHER -> {"cancelPayment"}]

\* the options a hook instance is mounted with
HookOptions ==
    [kind : DOMAIN HookActions, onSuccess : BOOLEAN, onError : BOOLEAN]

HookCalls == 1..MaxHookCalls

NewHookCall ==
    [pc |-> "idle",             \* idle, client (awaiting the client operation), done
     action |-> "none",         \* the action called
     client |-> "none",         \* the client operation: none, pending, ok, failed
     clientError |-> NoError,   \* what the client operation rejected with
     onSuccessCalls |-> 0,      \* invocations of options.onSuccess
     onErrorArgs |-> <<>>,      \* the argument of each invocation of options.onError
     promise |-> "none",        \* none, pending, resolved, rejected
     rejection |-> NoError,     \* what the promise of the action rejected with
     errorAfter |-> NoError,    \* the error cell when the action settled
     loadingAfter |-> FALSE,    \* the pending flag when the action settled
     after |-> {},              \* the calls that had settled when this one started
     settledBefore |-> {}]      \* the calls that had settled when this one settled

\* how the awaited client operation settles: it returns a record (with or
\* without encBill), or it throws one of the errors that leave callAPI
ClientResults ==
    {[kind |-> "ok", response |-> r, error |-> NoError] :
        r \in {<<Entry("state", Str("1")), Entry("encBill", Str("E1"))>>,
               <<Entry("state", Str("1"))>>}}
    \cup {[kind |-> "failed", response |-> <<>>, error |-> e] :
        e \in {createError("PayApp API error", "0"), createError("Failed to fetch", "UNKNOWN")}}

\* the exception of a callback of the host that throws
CallbackError(who) ==
    [isError |-> TRUE, message |-> who \o " failed", code |-> Undefined,
     state |-> Undefined, errorMessage |-> Undefined]

\* an action that does not call clearError() when it starts
HookStart_KeepsError(a) ==
    /\ hook.kind # "none"
    /\ a \in HookActions[hook.kind]
    /\ hStarted < MaxHookCalls
    /\ isLoading' = TRUE
    /\ error' = error
    /\ hcalls' = [hcalls EXCEPT ![hStarted + 1] =
                    [NewHookCall EXCEPT !.pc = "client", !.action = a,
                                        !.client = "pending", !.promise = "pending",
                                        !.after = {d \in HookCalls : hcalls[d].pc = "done"}]]
    /\ hStarted' = hStarted + 1
    /\ UNCHANGED <<hook, webhookVars, clientVars, codecVars, keyVars, sdkVars, tableVars, loaderVars>>

\* an action from its entry to the awaited client operation:
\* setIsLoading(true); clearError(); await clientRef.current.<operation>(params)
HookStart(a) ==
    /\ hook.kind # "none"
    /\ a \in HookActions[hook.kind]
    /\ hStarted < MaxHookCalls
    /\ isLoading' = TRUE
    /\ error' = NoError
    /\ hcalls' = [hcalls EXCEPT ![hStarted + 1] =
                    [NewHookCall EXCEPT !.pc = "client", !.action = a,
                                        !.client = "pending", !.promise = "pending",
                                        !.after = {d \in HookCalls : hcalls[d].pc = "done"}]]
    /\ hStarted' = hStarted + 1
    /\ UNCHANGED <<hook, webhookVars, clientVars, codecVars, keyVars, sdkVars, tableVars, loaderVars>>

requestPaymentAPI == HookStart("requestPaymentAPI")
requestRecurringPaymentAPI == HookStart("requestRecurringPaymentAPI")
Billing_registerBill == HookStart("registerBill")
Billing_deleteBill == HookStart("deleteBill")
Billing_payWithBill == HookStart("payWithBill")
Cancel_cancelPayment == HookStart("cancelPayment")

\* the try block calls options.onSuccess after the client operation returned
CallsOnSuccess(a, response) ==
    /\ hook.onSuccess
    /\ \/ a \in {"requestPaymentAPI", "cancelPayment"}
       \/ a = "registerBill" /\ OrEmpty(Get(response, "encBill")) # ""

\* an action without its finally block: the pending flag stays as it was
SettledLoading_Skipped(c) == isLoading

\* finally { setIsLoading(false) }: the pending flag after call c settled
SettledLoading(c) == FALSE

\* an action whose finally block leaves the pending flag set while another
\* call of the hook is in flight
ClientSettles_WhenLastSettles(c, o, sThrows, eThrows) ==
    /\ hcalls[c].pc = "client"
    /\ LET a == hcalls[c].action
           failed == o.kind = "failed"
           successCalled == ~failed /\ CallsOnSuccess(a, o.response)
           caught == failed \/ (successCalled /\ sThrows)
           err == IF failed THEN o.error ELSE CallbackError("onSuccess")
           errorCalled == caught /\ hook.onError
           thrown == IF errorCalled /\ eThrows THEN CallbackError("onError") ELSE err
           cell == IF caught THEN err ELSE error
       IN  /\ error' = cell
           /\ isLoading' = (\E d \in HookCalls : d # c /\ hcalls[d].pc = "client")
           /\ hcalls' = [hcalls EXCEPT ![c] =
                [@ EXCEPT !.pc = "done",
                          !.client = o.kind,
                          !.clientError = o.error,
                          !.onSuccessCalls = IF successCalled THEN 1 ELSE 0,
                          !.onErrorArgs = IF errorCalled THEN <<err>> ELSE <<>>,
                          !.promise = IF caught THEN "rejected" ELSE "resolved",
                          !.rejection = IF caught THEN thrown ELSE NoError,
                          !.errorAfter = cell,
                          !.settledBefore = {d \in HookCalls : hcalls[d].pc = "done"},
                          !.loadingAfter =
                              (\E d \in HookCalls : d # c /\ hcalls[d].pc = "client")]]
    /\ UNCHANGED <<hook, hStarted, webhookVars, clientVars, codecVars, keyVars, sdkVars, tableVars, loaderVars>>

\* the awaited client operation of call c settles with o; the action runs
\* to its end: the rest of the try block, the catch block, the finally
\* block.  The callbacks are called synchronously; sThrows / eThrows say
\* whether onSuccess / onError throws when it is called.
ClientSettles(c, o, sThrows, eThrows) ==
    /\ hcalls[c].pc = "client"
    /\ LET a == hcalls[c].action
           failed == o.kind = "failed"
           successCalled == ~failed /\ CallsOnSuccess(a, o.response)
           caught == failed \/ (successCalled /\ sThrows)
           err == IF failed THEN o.error ELSE CallbackError("onSuccess")
           errorCalled == caught /\ hook.onError
           thrown == IF errorCalled /\ eThrows THEN CallbackError("onError") ELSE err
           cell == IF caught THEN err ELSE error
       IN  /\ error' = cell
           /\ isLoading' = SettledLoading(c)
           /\ hcalls' = [hcalls EXCEPT ![c] =
                [@ EXCEPT !.pc = "done",
                          !.client = o.kind,
                          !.clientError = o.error,
                          !.onSuccessCalls = IF successCalled THEN 1 ELSE 0,
                          !.onErrorArgs = IF errorCalled THEN <<err>> ELSE <<>>,
                          !.promise = IF caught THEN "rejected" ELSE "resolved",
                          !.rejection = IF caught THEN thrown ELSE NoError,
                          !.errorAfter = cell,
                          !.settledBefore = {d \in HookCalls : hcalls[d].pc = "done"},
                          !.loadingAfter = SettledLoading(c)]]
    /\ UNCHANGED <<hook, hStarted, webhookVars, clientVars, codecVars, keyVars, sdkVars, tableVars, loaderVars>>

\* a hook instance right after its first render
HookInit ==
    /\ hook \in HookOptions
    /\ isLoading = FALSE
    /\ error = NoError
    /\ hcalls = [c \in HookCalls |-> NewHookCall]
    /\ hStarted = 0
    /\ WebhookOff /\ ClientInit /\ CodecOff /\ KeyOff /\ SdkOff /\ TablesOff /\ LoaderOff

HookNext ==
    \/ requestPaymentAPI
    \/ requestRecurringPaymentAPI
    \/ Billing_registerBill
    \/ Billing_deleteBill
    \/ Billing_payWithBill
    \/ Cancel_cancelPayment
    \/ \E c \in HookCalls, o \in ClientResults, sThrows \in BOOLEAN, eThrows \in BOOLEAN :
            ClientSettles(c, o, sThrows, eThrows)

SpecHooks == HookInit /\ [][HookNext]_vars

\* ============================================================== browser SDK
LoadCalls == 1..MaxLoads

NewLoadCall ==
    [promise |-> "none",        \* none, pending, resolved, rejected
     sawGlobal |-> FALSE,       \* window.PayApp was defined when the call was made
     sawTag |-> FALSE,          \* querySelector found a script element
     injected |-> FALSE,        \* the call appended a script element
     listening |-> 0]           \* the script element whose events settle the call

\* a script element with src = PAYAPP_SDK_URL: the page put it there or
\* loadPayAppSDK appended it; it is loading, has loaded or has failed
ScriptTag(by, state) == [by |-> by, state |-> state]

\* the documents a behaviour starts in: no such element, or one of the page
InitialTags ==
    {<<>>} \cup {<<ScriptTag("page", st)>> : st \in {"loading", "loaded", "failed"}}

\* the next loadPayAppSDK call, 0 when MaxLoads calls were made
NextLoad ==
    IF \E c \in LoadCalls : loadCalls[c].promise = "none"
    THEN CHOOSE c \in LoadCalls :
            /\ loadCalls[c].promise = "none"
            /\ \A d \in 1..(c - 1) : loadCalls[d].promise # "none"
    ELSE 0

\* the executor of the promise of loadPayAppSDK call c: resolve at once when
\* window.PayApp is defined, else listen on the script element the document
\* already has, else append one and listen on it
PromiseExecutor(c) ==
    LET r == [NewLoadCall EXCEPT !.sawGlobal = windowPayApp, !.sawTag = scriptTags # <<>>]
    IN  IF windowPayApp
        THEN /\ loadCalls' = [loadCalls EXCEPT ![c] = [r EXCEPT !.promise = "resolved"]]
             /\ scriptTags' = scriptTags
        ELSE IF scriptTags # <<>>
        THEN /\ loadCalls' = [loadCalls EXCEPT ![c] =
                     [r EXCEPT !.promise = "pending", !.listening = 1]]
             /\ scriptTags' = scriptTags
        ELSE /\ scriptTags' = Append(scriptTags, ScriptTag("loader", "loading"))
             /\ loadCalls' = [loadCalls EXCEPT ![c] =
                     [r EXCEPT !.promise = "pending", !.injected = TRUE,
                               !.listening = Len(scriptTags) + 1]]

\* loadPayAppSDK appending a script element whenever window.PayApp is absent
loadPayAppSDK_NoLookup ==
    /\ NextLoad # 0
    /\ LET c == NextLoad
           r == [NewLoadCall EXCEPT !.sawGlobal = windowPayApp, !.sawTag = scriptTags # <<>>]
       IN  IF windowPayApp
           THEN /\ loadCalls' = [loadCalls EXCEPT ![c] = [r EXCEPT !.promise = "resolved"]]
                /\ scriptTags' = scriptTags
           ELSE /\ scriptTags' = Append(scriptTags, ScriptTag("loader", "loading"))
                /\ loadCalls' = [loadCalls EXCEPT ![c] =
                        [r EXCEPT !.promise = "pending", !.injected = TRUE,
                                  !.listening = Len(scriptTags) + 1]]
    /\ UNCHANGED <<windowPayApp, sdkLog, sdkCall, webhookVars, clientVars, codecVars, keyVars, hookVars, tableVars, loaderVars>>

\* loadPayAppSDK(): the executor of its promise runs synchronously
loadPayAppSDK ==
    /\ NextLoad # 0
    /\ PromiseExecutor(NextLoad)
    /\ UNCHANGED <<windowPayApp, sdkLog, sdkCall, webhookVars, clientVars, codecVars, keyVars, hookVars, tableVars, loaderVars>>

\* the calls whose listeners are on element i settle
Settle(i, how) ==
    [c \in LoadCalls |->
        IF loadCalls[c].promise = "pending" /\ loadCalls[c].listening = i
        THEN [loadCalls[c] EXCEPT !.promise = how]
        ELSE loadCalls[c]]

\* element i fires load; the script it ran defined window.PayApp or did not
ScriptLoads(i, defines) ==
    /\ i \in 1..Len(scriptTags)
    /\ scriptTags[i].state = "loading"
    /\ scriptTags' = [scriptTags EXCEPT ![i].state = "loaded"]
    /\ windowPayApp' = (windowPayApp \/ defines)
    /\ loadCalls' = Settle(i, "resolved")
    /\ UNCHANGED <<sdkLog, sdkCall, webhookVars, clientVars, codecVars, keyVars, hookVars, tableVars, loaderVars>>

\* element i fires error
ScriptFails(i) ==
    /\ i \in 1..Len(scriptTags)
    /\ scriptTags[i].state = "loading"
    /\ scriptTags' = [scriptTags EXCEPT ![i].state = "failed"]
    /\ loadCalls' = Settle(i, "rejected")
    /\ UNCHANGED <<windowPayApp, sdkLog, sdkCall, webhookVars, clientVars, codecVars, keyVars, hookVars, tableVars, loaderVars>>

\* a call on window.PayApp
SdkMethod(method, key, value) == [method |-> method, key |-> key, value |-> value]

\* the parameter records given to the SDK-backed functions
SdkParamRecords ==
    {<<>>,
     <<Entry("goodname", Str("tea")), Entry("price", Num(1000))>>,
     <<Entry("price", Num(1000)), Entry("memo", Undefined), Entry("goodname", Str("tea"))>>}

ShopNames == {"FlashLingo", "shop"}

\* a setParam loop that leaves undefined values out
SetParamCalls_DefinedOnly(params) ==
    LET kept == SelectSeq(params, LAMBDA e : e.value.type # "undefined")
    IN  [i \in 1..Len(kept) |-> SdkMethod("setParam", kept[i].key, kept[i].value)]

\* Object.entries(params).forEach(([key, value]) => window.PayApp.setParam(key, value))
SetParamCalls(params) ==
    [i \in 1..Len(params) |-> SdkMethod("setParam", params[i].key, params[i].value)]

\* an SDK-backed function: it throws when window.PayApp is absent, else it
\* makes the given calls on it
SdkFunction(fn, params, methodCalls) ==
    /\ sdkCall' = [fn |-> fn, params |-> params, present |-> windowPayApp,
                   outcome |-> IF windowPayApp THEN "returned" ELSE "threw"]
    /\ sdkLog' = IF windowPayApp THEN methodCalls ELSE <<>>
    /\ UNCHANGED <<windowPayApp, scriptTags, loadCalls, webhookVars, clientVars, codecVars, keyVars, hookVars, tableVars, loaderVars>>

initPayAppSDK(userid, shopname) ==
    SdkFunction("initPayAppSDK",
                <<Entry("userid", Str(userid)), Entry("shopname", Str(shopname))>>,
                <<SdkMethod("setDefault", "userid", Str(userid)),
                  SdkMethod("setDefault", "shopname", Str(shopname))>>)

requestPaymentWithSDK(params) ==
    SdkFunction("requestPaymentWithSDK", params,
                SetParamCalls(params) \o <<SdkMethod("payrequest", "", Undefined)>>)

requestRecurringPaymentWithSDK(params) ==
    SdkFunction("requestRecurringPaymentWithSDK", params,
                SetParamCalls(params) \o <<SdkMethod("rebill", "", Undefined)>>)

SdkInit ==
    /\ windowPayApp \in BOOLEAN
    /\ scriptTags \in InitialTags
    /\ loadCalls = [c \in LoadCalls |-> NewLoadCall]
    /\ sdkLog = <<>>
    /\ sdkCall = NoSdkCall
    /\ WebhookOff /\ ClientInit /\ CodecOff /\ KeyOff /\ HookOff /\ TablesOff /\ LoaderOff

SdkNext ==
    \/ loadPayAppSDK
    \/ \E i \in 1..(MaxLoads + 1), defines \in BOOLEAN : ScriptLoads(i, defines)
    \/ \E i \in 1..(MaxLoads + 1) : ScriptFails(i)
    \/ \E shopname \in ShopNames : initPayAppSDK(credentials.userid, shopname)
    \/ \E params \in SdkParamRecords : requestPaymentWithSDK(params)
    \/ \E params \in SdkParamRecords : requestRecurringPaymentWithSDK(params)

SpecSdk == SdkInit /\ [][SdkNext]_vars

\* ======================================= overlapping process calls
\* the deliveries of the overlap specification: a completed payment with
\* the configured credentials, a requested one, and a forged completed one
OverlapFeedbacks ==
    {f \in Feedbacks :
        \/ validateFeedback(f, credentials) /\ f.pay_state \in {Num(1), Num(4)}
        \/ f.linkval # credentials.linkval /\ f.userid = credentials.userid
              /\ f.linkkey = credentials.linkkey}

OverlapHandlers == {{"onPaymentCompleted"}, {"onPaymentCompleted", "onError"}}

\* the host calls processor.process(feedback, handlers) without waiting
\* for the promises of its earlier calls: the call runs to its first await
\* while earlier calls are suspended at theirs
processWhilePending(feedback) ==
    /\ mode = "processor"
    /\ nStarted < MaxCalls
    /\ LET c == nStarted + 1
           r == ProcessEnter(Started(c), feedback)
       IN  /\ calls' = [calls EXCEPT ![c] = r]
           /\ processedKeys' = KeysAfter(r)
    /\ nStarted' = nStarted + 1
    /\ cleared' = FALSE
    /\ clearedBefore' = cleared
    /\ UNCHANGED <<mode, handlers, clsIn, clsOut, restVars>>

OverlapInit ==
    /\ mode = "processor"
    /\ handlers \in OverlapHandlers
    /\ processedKeys = {}
    /\ calls = [c \in Calls |-> NewCall]
    /\ nStarted = 0
    /\ cleared = FALSE
    /\ clearedBefore = FALSE
    /\ clsIn = Undefined
    /\ clsOut = "none"
    /\ ClientInit /\ CodecOff /\ KeyOff /\ HookOff /\ SdkOff /\ TablesOff /\ LoaderOff

OverlapNext ==
    \/ \E feedback \in OverlapFeedbacks : processWhilePending(feedback)
    \/ \E c \in Calls, outcome \in Outcomes : HandlerSettles(c, outcome)
    \/ \E c \in Calls, outcome \in Outcomes : OnErrorSettles(c, outcome)
    \/ clearProcessedKeys

SpecOverlap == OverlapInit /\ [][OverlapNext]_vars

\* =========================================================== lookup tables
\* The display strings of the source are Korean; each is written here as an
\* English gloss, equal source strings as equal glosses.

\* a function or object value, which property lookup finds on a prototype
Inherited(name) == [type |-> "object", num |-> 0, str |-> name]

\* the properties an object literal inherits from Object.prototype
ObjectPrototype ==
    {"constructor", "__proto__", "hasOwnProperty", "isPrototypeOf",
     "propertyIsEnumerable", "toLocaleString", "toString", "valueOf",
     "__defineGetter__", "__defineSetter__", "__lookupGetter__", "__lookupSetter__"}

\* table[key] on an object literal: the own property, else the inherited
\* one, else undefined; a number key is converted to its string
Lookup(table, key) ==
    LET k == String(key)
    IN  IF HasKey(table, k) THEN Get(table, k)
        ELSE IF k \in ObjectPrototype THEN Inherited(k)
        ELSE Undefined

\* ToBoolean
Truthy(v) ==
    CASE v.type = "number" -> v.num # 0
      [] v.type = "string" -> v.str # ""
      [] v.type = "object" -> TRUE
      [] OTHER -> FALSE

\* a || b
Or(a, b) == IF Truthy(a) THEN a ELSE b

\* the states table of getPayStateString
PayStateStrings ==
    << Entry("1", Str("request")),
       Entry("4", Str("payment complete")),
       Entry("8", Str("request cancelled")),
       Entry("9", Str("approval cancelled")),
       Entry("10", Str("payment waiting")),
       Entry("32", Str("request cancelled")),
       Entry("64", Str("approval cancelled")),
       Entry("70", Str("partial cancel")),
       Entry("71", Str("partial cancel")) >>

\* the fallback of both display tables
UnknownLabel == Str("unknown")

\* PayAppClient.getPayStateString(state)
getPayStateString(state) == Or(Lookup(PayStateStrings, state), UnknownLabel)

\* the types table of getPayTypeString
PayTypeStrings ==
    << Entry("1", Str("credit card")),
       Entry("2", Str("mobile phone")),
       Entry("4", Str("face-to-face payment")),
       Entry("6", Str("account transfer")),
       Entry("7", Str("virtual account")),
       Entry("15", Str("KakaoPay")),
       Entry("16", Str("NaverPay")),
       Entry("17", Str("registered payment")),
       Entry("21", Str("SmilePay")),
       Entry("22", Str("WeChat Pay")),
       Entry("23", Str("Apple Pay")),
       Entry("24", Str("my-account payment")),
       Entry("25", Str("TossPay")) >>

\* PayAppClient.getPayTypeString(type)
getPayTypeString(type) == Or(Lookup(PayTypeStrings, type), UnknownLabel)

PAYAPP_ERROR_MESSAGES ==
    << Entry("70001", Str("HTTPS protocol must be used.")),
       Entry("70010", Str("Seller id or link key is not valid.")),
       Entry("70020", Str("Parameter value is not valid.")),
       Entry("70040", Str("Command (cmd) value is not valid.")),
       Entry("70060", Str("No permission.")),
       Entry("70080", Str("Customer response failed. Answer SUCCESS at feedbackurl.")),
       Entry("80010", Str("Cannot be cancelled in this state.")),
       Entry("80020", Str("Cannot be cancelled in this state.")),
       Entry("80030", Str("Cancel amount is not valid.")) >>

UnknownErrorText == Str("An unknown error occurred.")

\* getPayAppErrorMessage(code)
getPayAppErrorMessage(code) == Or(Lookup(PAYAPP_ERROR_MESSAGES, code), UnknownErrorText)

\* isPaymentCompleted(feedback)
isPaymentCompleted(feedback) == StrictEquals(feedback.pay_state, Num(4))

\* isPaymentCancelled(feedback): Array.prototype.includes compares as ===
\* does for every value but NaN
isPaymentCancelled(feedback) ==
    \E n \in {8, 9, 32, 64, 70, 71} : StrictEquals(feedback.pay_state, Num(n))

\* a JavaScript boolean as a value
Bool(b) == [type |-> "boolean", num |-> IF b THEN 1 ELSE 0, str |-> ""]

\* the error codes given to getPayAppErrorMessage: the listed ones, unlisted
\* numeric ones, the empty string, and names every object inherits
ErrorCodeInputs ==
    {PAYAPP_ERROR_MESSAGES[i].key : i \in 1..Len(PAYAPP_ERROR_MESSAGES)}
        \cup {"", "0", "70002", "70011", "80040", "99999", "UNKNOWN", "HTTP_ERROR",
              "constructor", "toString", "__proto__"}

TableInputs ==
    {[kind |-> "pay_state", value |-> v] : v \in PayStateInputs}
        \cup {[kind |-> "pay_type", value |-> Num(n)] : n \in -1..MaxPayType}
        \cup {[kind |-> "code", value |-> Str(c)] : c \in ErrorCodeInputs}

TableInit ==
    /\ tblIn \in TableInputs
    /\ tblOut = NoTableResult
    /\ WebhookOff /\ ClientInit /\ CodecOff /\ KeyOff /\ HookOff /\ SdkOff /\ LoaderOff

\* the feedback whose pay_state is the drawn value
TableFeedback == [NoFeedback EXCEPT !.pay_state = tblIn.value]

\* processor.getEventType(feedback)
ApplyGetEventType ==
    /\ tblIn.kind = "pay_state"
    /\ tblOut.eventType = Undefined
    /\ tblOut' = [tblOut EXCEPT !.eventType = Str(getEventType(TableFeedback))]
    /\ UNCHANGED <<tblIn, webhookVars, clientVars, codecVars, keyVars, hookVars, sdkVars, loaderVars>>

\* isPaymentCompleted(feedback)
ApplyIsPaymentCompleted ==
    /\ tblIn.kind = "pay_state"
    /\ tblOut.completed = Undefined
    /\ tblOut' = [tblOut EXCEPT !.completed = Bool(isPaymentCompleted(TableFeedback))]
    /\ UNCHANGED <<tblIn, webhookVars, clientVars, codecVars, keyVars, hookVars, sdkVars, loaderVars>>

\* isPaymentCancelled(feedback)
ApplyIsPaymentCancelled ==
    /\ tblIn.kind = "pay_state"
    /\ tblOut.cancelled = Undefined
    /\ tblOut' = [tblOut EXCEPT !.cancelled = Bool(isPaymentCancelled(TableFeedback))]
    /\ UNCHANGED <<tblIn, webhookVars, clientVars, codecVars, keyVars, hookVars, sdkVars, loaderVars>>

\* PayAppClient.getPayStateString(feedback.pay_state)
ApplyGetPayStateString ==
    /\ tblIn.kind = "pay_state"
    /\ tblOut.stateString = Undefined
    /\ tblOut' = [tblOut EXCEPT !.stateString = getPayStateString(tblIn.value)]
    /\ UNCHANGED <<tblIn, webhookVars, clientVars, codecVars, keyVars, hookVars, sdkVars, loaderVars>>

\* PayAppClient.getPayTypeString(type)
ApplyGetPayTypeString ==
    /\ tblIn.kind = "pay_type"
    /\ tblOut.typeString = Undefined
    /\ tblOut' = [tblOut EXCEPT !.typeString = getPayTypeString(tblIn.value)]
    /\ UNCHANGED <<tblIn, webhookVars, clientVars, codecVars, keyVars, hookVars, sdkVars, loaderVars>>

\* getPayAppErrorMessage(code)
ApplyGetPayAppErrorMessage ==
    /\ tblIn.kind = "code"
    /\ tblOut.message = Undefined
    /\ tblOut' = [tblOut EXCEPT !.message = getPayAppErrorMessage(tblIn.value)]
    /\ UNCHANGED <<tblIn, webhookVars, clientVars, codecVars, keyVars, hookVars, sdkVars, loaderVars>>

TableNext ==
    \/ ApplyGetEventType
    \/ ApplyIsPaymentCompleted
    \/ ApplyIsPaymentCancelled
    \/ ApplyGetPayStateString
    \/ ApplyGetPayTypeString
    \/ ApplyGetPayAppErrorMessage

SpecTables == TableInit /\ [][TableNext]_vars

\* ====================================================== usePayApp.loadSDK
NewLoadSDKCall ==
    [pc |-> "idle",             \* idle, awaiting (loadPayAppSDK), done
     promise |-> "none",        \* the promise of loadSDK: none, pending, resolved, rejected
     initThrew |-> FALSE,       \* initPayAppSDK threw
     onErrorArgs |-> <<>>]      \* the argument of each invocation of options.onError

\* the error the catch block of loadSDK receives
LoadError(message) ==
    [isError |-> TRUE, message |-> message, code |-> Undefined,
     state |-> Undefined, errorMessage |-> Undefined]

\* loadSDK from its entry to the awaited promise:
\* setIsLoading(true); await loadPayAppSDK()
loadSDK ==
    /\ hook.kind = "usePayApp"
    /\ NextLoad # 0
    /\ isLoading' = TRUE
    /\ PromiseExecutor(NextLoad)
    /\ lsCalls' = [lsCalls EXCEPT ![NextLoad] =
                    [NewLoadSDKCall EXCEPT !.pc = "awaiting", !.promise = "pending"]]
    /\ UNCHANGED <<hook, error, hcalls, hStarted, isSDKLoaded, windowPayApp, sdkLog, sdkCall,
                   webhookVars, clientVars, codecVars, keyVars, tableVars>>

\* the promise call c awaits has settled and loadSDK runs to its end:
\* initPayAppSDK and setIsSDKLoaded(true), or the catch block, then the
\* finally block.  eThrows says whether onError throws when it is called.
LoadSDKResumes(c, eThrows) ==
    /\ lsCalls[c].pc = "awaiting"
    /\ loadCalls[c].promise \in {"resolved", "rejected"}
    /\ LET loaded == loadCalls[c].promise = "resolved"
           caught == ~loaded \/ ~windowPayApp
           err == IF loaded THEN LoadError("PayApp SDK not loaded")
                  ELSE LoadError("Failed to load PayApp SDK")
           errorCalled == caught /\ hook.onError
       IN  /\ IF loaded
              THEN /\ sdkCall' = [fn |-> "initPayAppSDK",
                                  params |-> <<Entry("userid", Str(credentials.userid)),
                                               Entry("shopname", Str("FlashLingo"))>>,
                                  present |-> windowPayApp,
                                  outcome |-> IF windowPayApp THEN "returned" ELSE "threw"]
                   /\ sdkLog' = IF windowPayApp
                                THEN <<SdkMethod("setDefault", "userid", Str(credentials.userid)),
                                       SdkMethod("setDefault", "shopname", Str("FlashLingo"))>>
                                ELSE <<>>
              ELSE UNCHANGED <<sdkCall, sdkLog>>
           /\ isSDKLoaded' = (isSDKLoaded \/ ~caught)
           /\ error' = IF caught THEN err ELSE error
           /\ isLoading' = FALSE
           /\ lsCalls' = [lsCalls EXCEPT ![c] =
                [@ EXCEPT !.pc = "done",
                          !.initThrew = (loaded /\ ~windowPayApp),
                          !.onErrorArgs = IF errorCalled THEN <<err>> ELSE <<>>,
                          !.promise = IF errorCalled /\ eThrows THEN "rejected"
                                      ELSE "resolved"]]
    /\ UNCHANGED <<hook, hcalls, hStarted, windowPayApp, scriptTags, loadCalls,
                   webhookVars, clientVars, codecVars, keyVars, tableVars>>

\* a usePayApp instance right after its first render, in a document
LoadSDKInit ==
    /\ hook \in {o \in HookOptions : o.kind = "usePayApp"}
    /\ isLoading = FALSE
    /\ error = NoError
    /\ hcalls = [c \in HookCalls |-> NewHookCall]
    /\ hStarted = 0
    /\ isSDKLoaded = FALSE
    /\ lsCalls = [c \in LoadCalls |-> NewLoadSDKCall]
    /\ windowPayApp \in BOOLEAN
    /\ scriptTags \in InitialTags
    /\ loadCalls = [c \in LoadCalls |-> NewLoadCall]
    /\ sdkLog = <<>>
    /\ sdkCall = NoSdkCall
    /\ WebhookOff /\ ClientInit /\ CodecOff /\ KeyOff /\ TablesOff

\* a script element fires load or error
ScriptFires ==
    \/ \E i \in 1..(MaxLoads + 1), defines \in BOOLEAN : ScriptLoads(i, defines)
    \/ \E i \in 1..(MaxLoads + 1) : ScriptFails(i)

\* a loadSDK call whose awaited promise has settled continues
Resumes == \E c \in LoadCalls, eThrows \in BOOLEAN : LoadSDKResumes(c, eThrows)

LoadSDKNext ==
    \/ loadSDK
    \/ ScriptFires
    \/ Resumes

\* Every script element that is loading fires load or error in the end (the
\* browser ends every fetch), and a continuation whose promise has settled
\* runs (the microtask queue is drained).
SpecLoadSDK ==
    /\ LoadSDKInit
    /\ [][LoadSDKNext]_vars
    /\ WF_vars(ScriptFires)
    /\ WF_vars(Resumes)

\* ------------------------------------------------------ claim vocabulary
\* the feedback of call c carries exactly the configured credential triple
CredentialsMatch(c) ==
    /\ calls[c].fb.userid = "merchant"
    /\ calls[c].fb.linkkey = "key"
    /\ calls[c].fb.linkval = "val"

\* call c went through process and process has settled
Processed(c) == calls[c].processed /\ calls[c].pc = "done"

\* the pay_state codes the specification maps to a category
MappedCodes == {1, 4, 8, 9, 10, 32, 64, 70, 71}

\* the category the specification gives a pay_state code
CategoryOf(n) ==
    IF n = 1 THEN "payment.requested"
    ELSE IF n = 4 THEN "payment.completed"
    ELSE IF n \in {8, 9, 32, 64, 70, 71} THEN "payment.cancelled"
    ELSE IF n = 10 THEN "payment.waiting"
    ELSE "payment.unknown"

\* the WebhookHandler member the specification dispatches a category to
MemberOf(category) ==
    IF category = "payment.requested" THEN "onPaymentRequested"
    ELSE IF category = "payment.completed" THEN "onPaymentCompleted"
    ELSE IF category = "payment.cancelled" THEN "onPaymentCancelled"
    ELSE IF category = "payment.waiting" THEN "onPaymentWaiting"
    ELSE "none"

\* how many event handler invocations call c made
EventInvocations(c) ==
    calls[c].inv["onPaymentRequested"] + calls[c].inv["onPaymentCompleted"]
        + calls[c].inv["onPaymentCancelled"] + calls[c].inv["onPaymentWaiting"]

\* c2 is the latest call, made right after c1 returned: nothing overlapped
\* c1, and neither another call nor clearProcessedKeys ran in between
InSequence(c1, c2) ==
    /\ c2 = c1 + 1
    /\ c2 = nStarted
    /\ calls[c1].after = 1..(c1 - 1)
    /\ calls[c2].after = 1..c1
    /\ ~clearedBefore

\* c1 and c2 are process calls with an identical feedback record
SameFeedback(c1, c2) ==
    /\ calls[c1].processed
    /\ calls[c2].processed
    /\ calls[c1].fb = calls[c2].fb

\* ------------------------------------------------------------------ claims
\* C1: a feedback whose credential triple does not match the configured
\* credentials makes process return "ERROR" with none of the four event
\* handlers invoked.
C1_MismatchReturnsError ==
    \A c \in Calls :
        (Processed(c) /\ ~CredentialsMatch(c)) =>
            /\ calls[c].result = "ERROR"
            /\ EventInvocations(c) = 0

\* C2 as stated: two process calls in sequence with an identical,
\* validly-credentialed feedback dispatch the handler at most once and both
\* return "SUCCESS"; the second call invokes no handler.
C2_TwiceBothSuccess ==
    \A c1, c2 \in Calls :
        (InSequence(c1, c2) /\ SameFeedback(c1, c2) /\ CredentialsMatch(c1)
            /\ Processed(c1) /\ Processed(c2)) =>
            /\ calls[c1].result = "SUCCESS"
            /\ calls[c2].result = "SUCCESS"
            /\ EventInvocations(c1) + EventInvocations(c2) <= 1
            /\ \A h \in HandlerNames : calls[c2].inv[h] = 0

\* C2 as amended: when the first of two process calls in sequence with an
\* identical, validly-credentialed feedback returned "SUCCESS", the second
\* returns "SUCCESS" by the duplicate short-circuit without invoking any
\* handler, and the handler was dispatched at most once over both calls.
C2_ReplayAfterSuccess ==
    \A c1, c2 \in Calls :
        (InSequence(c1, c2) /\ SameFeedback(c1, c2) /\ CredentialsMatch(c1)
            /\ Processed(c1) /\ calls[c1].result = "SUCCESS") =>
            /\ calls[c2].pc = "done"
            /\ calls[c2].result = "SUCCESS"
            /\ EventInvocations(c1) + EventInvocations(c2) <= 1
            /\ \A h \in HandlerNames : calls[c2].inv[h] = 0

C2_Witness ==
    \E c1, c2 \in Calls :
        /\ InSequence(c1, c2) /\ SameFeedback(c1, c2) /\ CredentialsMatch(c1)
        /\ Processed(c1) /\ Processed(c2)
        /\ calls[c1].inv["onPaymentCompleted"] = 1
        /\ calls[c1].result = "SUCCESS"
        /\ calls[c2].result = "SUCCESS"

\* C3: when the event handler awaited by a process call rejects, that call
\* does not add the dedup key to the processed keys, and the next identical
\* delivery invokes the handler again.
C3_ThrowLeavesKeyAbsent ==
    /\ \A c \in Calls : calls[c].threw => ~calls[c].marked
    /\ \A c \in Calls :
        (calls[c].threw /\ \A d \in Calls : ~calls[d].marked) =>
            generateFeedbackKey(calls[c].fb) \notin processedKeys
    /\ \A c1, c2 \in Calls :
        (InSequence(c1, c2) /\ SameFeedback(c1, c2) /\ calls[c1].threw) =>
            /\ ~calls[c2].dup
            /\ calls[c2].inv[calls[c1].awaiting] >= 1

C3_Witness ==
    \E c1, c2 \in Calls :
        /\ InSequence(c1, c2) /\ SameFeedback(c1, c2)
        /\ calls[c1].threw /\ calls[c1].pc = "done"
        /\ calls[c1].inv["onPaymentCancelled"] = 1
        /\ calls[c2].inv["onPaymentCancelled"] = 1
        /\ generateFeedbackKey(calls[c1].fb) \notin processedKeys

\* C4: the promise returned by process never rejects; it resolves to
\* "SUCCESS" or "ERROR" whatever the handlers and onError do.
C4_ProcessNeverRejects ==
    \A c \in Calls :
        (calls[c].processed /\ calls[c].result # "none") =>
            calls[c].result \in {"SUCCESS", "ERROR"}

\* C5: the endpoint answers every form-urlencoded POST with HTTP 200 and the
\* body SUCCESS or ERROR, and its promise never rejects.
C5_EndpointAlwaysAnswers200 ==
    \A c \in Calls :
        (/\ mode = "endpoint"
         /\ Processed(c)
         /\ calls[c].req.method = "POST"
         /\ IncludesFormContentType(calls[c].req.contentType)) =>
            /\ calls[c].promise = "resolved"
            /\ calls[c].response.status = 200
            /\ calls[c].response.body \in {"SUCCESS", "ERROR"}

\* C6: a validly-credentialed feedback posted to the endpoint with a mapped
\* pay_state code (4 in particular) reaches the registered handler of that
\* code's category exactly once, and the endpoint answers 200 SUCCESS when
\* that handler resolves.
C6_PostedFeedbackReachesHandler ==
    \A c \in Calls : \A n \in MappedCodes :
        (/\ mode = "endpoint"
         /\ Processed(c)
         /\ CredentialsMatch(c)
         /\ ~calls[c].dup
         /\ calls[c].req.body.pay_state = ToString(n)
         /\ MemberOf(CategoryOf(n)) \in handlers) =>
            /\ calls[c].inv[MemberOf(CategoryOf(n))] = 1
            /\ ~calls[c].threw =>
                calls[c].response = [status |-> 200, body |-> "SUCCESS"]

\* C7: getEventType gives every integer pay_state exactly the category of the
\* table: 1 requested, 4 completed, 8/9/32/64/70/71 cancelled, 10 waiting,
\* anything else unknown.
C7_ClassificationTotal ==
    (clsOut # "none" /\ clsIn.type = "number") =>
        /\ clsOut \in WebhookEventType
        /\ clsOut = CategoryOf(clsIn.num)

C7_Witness == clsIn = Num(71) /\ clsOut = "payment.cancelled"

\* C8: for a validly-credentialed feedback that is not a duplicate, process
\* invokes the handler registered for the category of its pay_state once and
\* no other event handler; with no handler registered for the category it
\* invokes none, raises no error and returns "SUCCESS".
C8_ExactlyOneHandler ==
    \A c \in Calls :
        (/\ Processed(c)
         /\ CredentialsMatch(c)
         /\ ~calls[c].dup
         /\ calls[c].fb.pay_state.type = "number") =>
            LET h == MemberOf(CategoryOf(calls[c].fb.pay_state.num))
            IN  /\ \A g \in EventHandlers :
                    calls[c].inv[g] = IF g = h /\ g \in handlers THEN 1 ELSE 0
                /\ h \notin handlers =>
                    /\ calls[c].result = "SUCCESS"
                    /\ calls[c].inv["onError"] = 0

C8_Witness ==
    \E c \in Calls :
        /\ Processed(c) /\ CredentialsMatch(c) /\ ~calls[c].dup
        /\ calls[c].fb.pay_state = Num(4)
        /\ EventHandlers \subseteq handlers
        /\ calls[c].inv["onPaymentCompleted"] = 1
        /\ calls[c].inv["onPaymentCancelled"] = 0

\* C9: a validly-credentialed feedback whose pay_state is not a mapped code
\* is classified unknown, invokes neither an event handler nor onError, and
\* process returns "SUCCESS".
C9_UnmappedSucceeds ==
    \A c \in Calls :
        (/\ calls[c].processed
         /\ CredentialsMatch(c)
         /\ calls[c].fb.pay_state.type = "number"
         /\ calls[c].fb.pay_state.num \notin MappedCodes) =>
            /\ calls[c].pc = "done"
            /\ calls[c].eventType \in {"payment.unknown", "none"}
            /\ calls[c].eventType = "none" => calls[c].dup
            /\ \A h \in HandlerNames : calls[c].inv[h] = 0
            /\ calls[c].result = "SUCCESS"

C9_Witness ==
    \E c \in Calls :
        /\ Processed(c) /\ CredentialsMatch(c)
        /\ calls[c].fb.pay_state = Num(99)
        /\ calls[c].eventType = "payment.unknown"
        /\ handlers = HandlerNames
        /\ calls[c].result = "SUCCESS"

\* C10: an exception raised inside process by validation or by an event
\* handler reaches a registered onError exactly once, with the feedback, and
\* process yields "ERROR"; through the endpoint the response is 200 ERROR.
C10_ErrorsRoutedOnce ==
    \A c \in Calls :
        (/\ calls[c].pc = "done"
         /\ calls[c].processed
         /\ (~CredentialsMatch(c) \/ calls[c].threw)
         /\ "onError" \in handlers) =>
            /\ calls[c].inv["onError"] = 1
            /\ calls[c].onErrorArgs[1].withFeedback
            /\ calls[c].result = "ERROR"
            /\ mode = "endpoint" =>
                calls[c].response = [status |-> 200, body |-> "ERROR"]

\* the media type of the header is application/x-www-form-urlencoded
NamesFormContentType(ct) ==
    /\ Len(ct) >= Len(FormContentType)
    /\ SubSeq(ct, 1, Len(FormContentType)) = FormContentType

\* C11: the endpoint accepts POST only: a request with any other method is
\* answered 405, a POST whose content-type header does not contain
\* application/x-www-form-urlencoded is answered 400, and in both cases
\* no event handler and no onError ran and no key was added.
C11_EarlyChecksTurnAway ==
    \A c \in Calls :
        (mode = "endpoint" /\ c <= nStarted
            /\ (calls[c].req.method # "POST"
                \/ ~NamesFormContentType(calls[c].req.contentType))) =>
            /\ calls[c].pc = "done"
            /\ calls[c].response.status =
                   (IF calls[c].req.method # "POST" THEN 405 ELSE 400)
            /\ \A h \in HandlerNames : calls[c].inv[h] = 0
            /\ calls[c].onErrorArgs = <<>>
            /\ ~calls[c].processed
            /\ ~calls[c].marked

\* a GET was answered 405 and a POST of JSON was answered 400, after an
\* earlier delivery had left its key in the set
C11_Witness ==
    /\ mode = "endpoint"
    /\ processedKeys # {}
    /\ \E c \in Calls :
        /\ calls[c].pc = "done"
        /\ calls[c].req.method = "POST"
        /\ calls[c].req.contentType = "application/json"
        /\ calls[c].response.status = 400

\* C20 as stated: validation precedes dedup: a feedback with non-matching
\* credentials whose dedup key is already in the processed-keys set
\* yields "ERROR", never the duplicate "SUCCESS", and adds no key.
C20_ForgedReplayYieldsError ==
    \A c \in Calls :
        (mode = "processor" /\ c = nStarted /\ ~cleared
            /\ calls[c].pc = "done" /\ Processed(c) /\ ~CredentialsMatch(c)
            /\ generateFeedbackKey(calls[c].fb) \in processedKeys) =>
            /\ calls[c].result = "ERROR"
            /\ ~calls[c].dup
            /\ ~calls[c].marked

\* the entries of a record as a set
EntriesOf(obj) == {obj[i] : i \in 1..Len(obj)}

\* C15: encoding a flat parameter record to a form body as callAPI does
\* and decoding that body as parseResponse does yields exactly the keys
\* whose value is neither null nor undefined, each mapped to the string
\* form of its value.
C15_RoundTrip ==
    codecPc = "decoded" =>
        EntriesOf(codecOut) =
            {Entry(e.key, Str(String(e.value))) :
                e \in {x \in EntriesOf(codecIn) : x.value.type \notin {"undefined", "null"}}}

\* a record with a skipped entry and a value that holds the separators and
\* an escape-like sequence went through both directions
C15_Witness ==
    /\ codecPc = "decoded"
    /\ Len(codecIn) = 2
    /\ codecIn[1].key = "a&b=c"
    /\ codecIn[1].value = Str("%26")
    /\ codecIn[2].value = Null
    /\ Len(codecOut) = 1

\* C12: an operation fails with a ProviderError carrying code and message
\* when the transport answers a non-success HTTP status (code: the status
\* as a string, the body is never read) or when the parsed response has
\* state "0" (code "0", message: errorMessage or the default text).
C12_FailuresAreProviderErrors ==
    apiPc = "done" =>
        /\ (transport.status # 0 /\ transport.status \notin 200..299) =>
            /\ apiOutcome.kind = "thrown"
            /\ isPayAppError(apiOutcome.error)
            /\ apiOutcome.error.code = Str(ToString(transport.status))
            /\ apiOutcome.error.message =
                   "HTTP error! status: " \o ToString(transport.status)
            /\ ~transport.textRead
        /\ (transport.textRead /\ Get(parseResponse(transport.text), "state") = Str("0")) =>
            /\ apiOutcome.kind = "thrown"
            /\ isPayAppError(apiOutcome.error)
            /\ apiOutcome.error.code = Str("0")
            /\ apiOutcome.error.message \in {"bad card", "PayApp API error"}
            /\ (apiOutcome.error.message = "bad card") =
                   (transport.text = "state=0&errorMessage=bad+card")

\* the provider reported a failure with a message, and the operation threw it
C12_Witness ==
    /\ apiPc = "done"
    /\ transport.status = 200
    /\ transport.text = "state=0&errorMessage=bad+card"
    /\ apiOutcome.kind = "thrown"
    /\ apiOutcome.error.code = Str("0")
    /\ apiOutcome.error.message = "bad card"

\* C13 as stated: every exception of the network call other than those is
\* rethrown wrapped in a ProviderError with code "UNKNOWN" and state "0",
\* so every error leaving a client operation satisfies isPayAppError.
C13_EveryErrorIsPayAppError ==
    (apiPc = "done" /\ apiOutcome.kind = "thrown") =>
        /\ isPayAppError(apiOutcome.error)
        /\ transport.threw =>
            /\ apiOutcome.error.code = Str("UNKNOWN")
            /\ apiOutcome.error.state = Str("0")

\* the command tag the specification gives each operation
TagOf(op) ==
    CASE op = "requestPayment" -> "payrequest"
      [] op = "cancelPayment" -> "paycancel"
      [] op = "registerBill" -> "billRegist"
      [] op = "deleteBill" -> "billDelete"
      [] op = "payWithBill" -> "billPay"
      [] op = "registerRecurringPayment" -> "rebillRegist"
      [] op = "cancelRecurringPayment" -> "rebillCancel"
      [] op = "stopRecurringPayment" -> "rebillStop"
      [] op = "startRecurringPayment" -> "rebillStart"
      [] op = "issueCashReceipt" -> "cashReceiptIssue"
      [] op = "cancelCashReceipt" -> "cashReceiptCancel"

\* C14 as stated: for each of the eleven operations and every parameter
\* record, the single outbound request carries cmd equal to the fixed tag
\* of the operation and userid equal to the merchant id of the stored
\* credentials; fields of the caller cannot replace them.
C14_FixedCommandAndMerchant ==
    apiPc # "idle" =>
        /\ Len(fetched) = 1
        /\ LET sent == parseResponse(fetched[1].body)
           IN  /\ Get(sent, "cmd") = Str(TagOf(apiCall.op))
               /\ Get(sent, "userid") = Str("merchant")

\* an absent correlation field counts as the empty string
AbsentAsEmpty(v) == IF v.type = "string" THEN v.str ELSE ""

\* the two feedbacks agree on (mul_no, pay_state, var1, var2)
Agree(f1, f2) ==
    /\ f1.mul_no = f2.mul_no
    /\ f1.pay_state = f2.pay_state
    /\ AbsentAsEmpty(f1.var1) = AbsentAsEmpty(f2.var1)
    /\ AbsentAsEmpty(f1.var2) = AbsentAsEmpty(f2.var2)

HasSeparator(s) == \E i \in 1..Len(s) : SubSeq(s, i, i) = "_"

\* none of mul_no, var1, var2 of the feedback contains '_'
SeparatorFree(f) ==
    /\ ~HasSeparator(f.mul_no)
    /\ ~HasSeparator(AbsentAsEmpty(f.var1))
    /\ ~HasSeparator(AbsentAsEmpty(f.var2))

\* C19 as stated: two feedbacks get the same key exactly when they agree
\* on (mul_no, pay_state, var1, var2), an absent correlation field counting
\* as empty, for all string values including those that contain '_'.
C19_KeysCollisionFree ==
    keyOut # <<>> => ((keyOut[1] = keyOut[2]) <=> Agree(keyIn[1], keyIn[2]))

\* C19 as amended: when none of mul_no, var1, var2 contains the separator
\* '_', two feedbacks get the same key exactly when they agree on
\* (mul_no, pay_state, var1, var2), an absent correlation field counting
\* as empty.
C19_SeparatorFreeKeysCollisionFree ==
    (keyOut # <<>> /\ SeparatorFree(keyIn[1]) /\ SeparatorFree(keyIn[2])) =>
        ((keyOut[1] = keyOut[2]) <=> Agree(keyIn[1], keyIn[2]))

\* two separator-free feedbacks, one with var1 absent and one with var1
\* empty, got the same key
C19_Witness ==
    /\ keyOut # <<>>
    /\ SeparatorFree(keyIn[1]) /\ SeparatorFree(keyIn[2])
    /\ keyIn[1].var1 = Undefined
    /\ keyIn[2].var1 = Str("")
    /\ keyIn[1].var2 = Str("1")
    /\ keyOut[1] = keyOut[2]
    /\ keyOut[1] = "9_4__1"

\* C16 as stated: when the client operation of a REST-backed hook action
\* fails, the error is stored in the error cell of the hook, onError (if
\* supplied) is invoked once with it, the promise of the action rejects
\* with that same error, and the pending flag is set back to false.
C16_FailureSurfacesThreeWays ==
    \A c \in HookCalls :
        (hook.kind # "none" /\ hcalls[c].pc = "done" /\ hcalls[c].client = "failed") =>
            /\ hcalls[c].errorAfter = hcalls[c].clientError
            /\ hcalls[c].onErrorArgs =
                   (IF hook.onError THEN <<hcalls[c].clientError>> ELSE <<>>)
            /\ hcalls[c].promise = "rejected"
            /\ hcalls[c].rejection = hcalls[c].clientError
            /\ ~hcalls[c].loadingAfter

\* the script elements loadPayAppSDK appended
InjectedTags == {i \in 1..Len(scriptTags) : scriptTags[i].by = "loader"}

\* C17: over any sequence of loadPayAppSDK calls at most one script tag
\* for the SDK URL is ever injected, and none by a call made when the SDK
\* global is already present or a script tag with that URL already exists.
C17_AtMostOneScriptTag ==
    /\ Cardinality(InjectedTags) <= 1
    /\ Cardinality({c \in LoadCalls : loadCalls[c].injected}) <= 1
    /\ \A c \in LoadCalls :
        loadCalls[c].injected => (~loadCalls[c].sawGlobal /\ ~loadCalls[c].sawTag)
    /\ (scriptTags # <<>> /\ scriptTags[1].by = "page") => InjectedTags = {}

\* two calls were made while the SDK was absent: the first appended the
\* script element, the second found it and appended nothing
C17_Witness ==
    /\ loadCalls[1].injected
    /\ loadCalls[2].promise # "none"
    /\ ~loadCalls[2].sawGlobal
    /\ loadCalls[2].sawTag
    /\ ~loadCalls[2].injected
    /\ Len(scriptTags) = 1

\* C18: initPayAppSDK, requestPaymentWithSDK and
\* requestRecurringPaymentWithSDK throw and call no SDK method when the SDK
\* global is absent; when it is present every parameter of the caller is
\* passed through setParam, in order, before the single payrequest / rebill
\* call.
C18_SdkFunctionsFailFast ==
    sdkCall.fn # "none" =>
        IF ~sdkCall.present
        THEN sdkCall.outcome = "threw" /\ sdkLog = <<>>
        ELSE /\ sdkCall.outcome = "returned"
             /\ sdkCall.fn = "initPayAppSDK" =>
                    /\ Len(sdkLog) = 2
                    /\ \A i \in 1..2 : sdkLog[i].method = "setDefault"
             /\ sdkCall.fn # "initPayAppSDK" =>
                    /\ Len(sdkLog) = Len(sdkCall.params) + 1
                    /\ \A i \in 1..Len(sdkCall.params) :
                        /\ sdkLog[i].method = "setParam"
                        /\ sdkLog[i].key = sdkCall.params[i].key
                        /\ sdkLog[i].value = sdkCall.params[i].value
                    /\ sdkLog[Len(sdkLog)].method =
                           (IF sdkCall.fn = "requestPaymentWithSDK"
                            THEN "payrequest" ELSE "rebill")

\* a record with an undefined value was handed to the SDK, entry by entry,
\* and the payment was requested once
C18_Witness ==
    /\ sdkCall.fn = "requestPaymentWithSDK"
    /\ sdkCall.present
    /\ Len(sdkCall.params) = 3
    /\ Len(sdkLog) = 4
    /\ sdkLog[2].value = Undefined
    /\ sdkLog[4].method = "payrequest"

\* the event handler of call c was invoked and its promise resolved
HandlerCompleted(c) ==
    /\ calls[c].awaiting # "none"
    /\ calls[c].pc = "done"
    /\ ~calls[c].threw

\* C21 as stated: when process calls on one processor interleave at the
\* awaited handler invocations, the event handler completes successfully
\* at most once per dedup key between clears of the processed-keys set,
\* even when the second delivery starts while the handler of the first is
\* still pending.
C21_HandlerCompletesOncePerKey ==
    \A c1, c2 \in Calls :
        (c2 = c1 + 1 /\ c2 = nStarted /\ ~cleared /\ ~clearedBefore
            /\ calls[c1].processed /\ calls[c2].processed
            /\ CredentialsMatch(c1) /\ CredentialsMatch(c2)
            /\ generateFeedbackKey(calls[c1].fb) = generateFeedbackKey(calls[c2].fb)) =>
            ~(HandlerCompleted(c1) /\ HandlerCompleted(c2))

\* c2 is the latest call, made right after c1 settled, with the same feedback
Redelivery(c1, c2) ==
    /\ c2 = c1 + 1
    /\ c2 = nStarted
    /\ c1 \in calls[c2].after
    /\ SameFeedback(c1, c2)
    /\ CredentialsMatch(c1)
    /\ calls[c1].result = "SUCCESS"

\* no eviction: without a clear in between the redelivery is a duplicate;
\* after a clear that emptied the set the redelivery is dispatched again
C22_NoEviction ==
    \A c1, c2 \in Calls :
        Redelivery(c1, c2) =>
            /\ ~clearedBefore =>
                /\ generateFeedbackKey(calls[c2].fb) \in calls[c2].keysBefore
                /\ calls[c2].dup
                /\ calls[c2].result = "SUCCESS"
                /\ \A h \in HandlerNames : calls[c2].inv[h] = 0
            /\ (clearedBefore /\ calls[c2].keysBefore = {}) =>
                /\ ~calls[c2].dup
                /\ LET h == HandlerOf(getEventType(calls[c2].fb))
                   IN  h \in handlers => calls[c2].inv[h] = 1

\* a step of clearProcessedKeys leaves the set empty
C22_ClearEmpties ==
    (~cleared /\ cleared') => processedKeys' = {}

\* C22: the processed-keys set has no automatic eviction: once process
\* returned "SUCCESS" for a validly-credentialed feedback, a later
\* identical delivery is a duplicate (no handler invoked) until
\* clearProcessedKeys is called; after clearProcessedKeys the set is empty
\* and the next identical delivery dispatches the handler again.
C22_DuplicateUntilCleared == []C22_NoEviction /\ [][C22_ClearEmpties]_vars

\* a completed payment was handled, the set was cleared while it held the
\* key, and the redelivery invoked the handler again
C22_Witness ==
    /\ mode = "processor"
    /\ Redelivery(1, 2)
    /\ clearedBefore
    /\ calls[2].keysBefore = {}
    /\ calls[1].inv["onPaymentCompleted"] = 1
    /\ calls[2].inv["onPaymentCompleted"] = 1
    /\ calls[2].pc = "done"
    /\ calls[2].result = "SUCCESS"

\* the call in progress has failed: the transport threw, answered a
\* non-success status, or the provider reported state "0"
CallFailed ==
    \/ transport.threw
    \/ transport.status # 0 /\ transport.status \notin 200..299
    \/ transport.textRead /\ Get(parseResponse(transport.text), "state") = Str("0")

\* C23: each client operation issues exactly one outbound HTTP POST per
\* call and never retries: whether the call ends in success, an HTTP
\* error, a provider-reported failure or a transport exception, one
\* request was sent, and a failure ends the call at once with a thrown
\* error.
C23_OneRequestNoRetry ==
    apiPc # "idle" =>
        /\ Len(fetched) = 1
        /\ fetched[1].method = "POST"
        /\ fetched[1].url = "https://api.payapp.kr/oapi/apiLoad.html"
        /\ CallFailed => (apiPc = "done" /\ apiOutcome.kind = "thrown")
        /\ apiPc = "done" => apiOutcome.kind \in {"returned", "thrown"}

\* the transport threw after the response had arrived, and the call
\* ended with the one request it had sent
C23_Witness ==
    /\ apiPc = "done"
    /\ transport.threw
    /\ transport.status = 200
    /\ apiOutcome.kind = "thrown"
    /\ apiOutcome.error.code = Str("UNKNOWN")
    /\ Len(fetched) = 1

\* every started action has issued its client request
C24_RequestIssuedAtStart ==
    \A c \in HookCalls :
        (hook.kind # "none" /\ hcalls[c].pc # "idle") => hcalls[c].client # "none"

\* the step in which call c settles sets isLoading to false and, when the
\* client operation failed, puts its error in the error cell, whether or
\* not another call is in flight
C24_SettleWritesFlags ==
    \A c \in HookCalls :
        (hook.kind # "none" /\ hcalls[c].pc = "client" /\ hcalls'[c].pc = "done") =>
            /\ isLoading' = FALSE
            /\ hcalls'[c].client = "failed" => error' = hcalls'[c].clientError

\* a call can start while another is in flight
C24_NotSerialized ==
    \A c \in HookCalls :
        (hook.kind # "none" /\ hcalls[c].pc = "idle" /\ hcalls'[c].pc # "idle") =>
            /\ hcalls'[c].pc = "client"
            /\ isLoading' = TRUE

\* C24: overlapping calls on one hook instance are not serialized and race
\* on the shared flags, last writer wins: a second action started while
\* the first is in flight issues its own request at once, and when either
\* call settles it sets isLoading to false (and on failure overwrites the
\* error cell) although the other call is still in flight.
C24_LastWriterWins ==
    /\ []C24_RequestIssuedAtStart
    /\ [][C24_SettleWritesFlags]_vars
    /\ [][C24_NotSerialized]_vars

\* the first call failed and settled while the second is still in flight:
\* the pending flag is already false and the error of the first is shown
C24_Witness ==
    /\ hcalls[1].pc = "done"
    /\ hcalls[1].client = "failed"
    /\ hcalls[2].pc = "client"
    /\ hcalls[2].client = "pending"
    /\ isLoading = FALSE
    /\ error = hcalls[1].clientError

\* C25 as stated: a new REST-backed hook call starts fresh state, so an
\* error left by an earlier failed call is never visible together with
\* the result of a later successful call.
C25_NoStaleErrorWithLaterSuccess ==
    \A c1, c2 \in HookCalls :
        (hook.kind # "none" /\ c1 < c2
            /\ hcalls[c1].pc = "done" /\ hcalls[c1].client = "failed"
            /\ hcalls[c2].pc = "done" /\ hcalls[c2].client = "ok"
            /\ hcalls[c2].promise = "resolved") =>
            hcalls[c2].errorAfter # hcalls[c1].clientError

\* no other call of the hook settled while call c was in flight
Unraced(c) ==
    IF hcalls[c].pc = "done"
    THEN hcalls[c].settledBefore = hcalls[c].after
    ELSE {d \in HookCalls : hcalls[d].pc = "done"} = hcalls[c].after

\* C25 as amended: before the request is issued the action sets isLoading
\* to true and resets the error cell to null; when no other call of the
\* hook settles while the new call is in flight, the error cell is null
\* when the new call resolves, so the error of a call that failed before
\* it started is not visible with its result.
C25_FreshStateUnlessRaced ==
    \A c \in HookCalls :
        (hook.kind # "none" /\ hcalls[c].pc # "idle" /\ Unraced(c)) =>
            /\ (hcalls[c].pc = "client" /\ c = hStarted) =>
                (isLoading /\ error = NoError)
            /\ (hcalls[c].pc = "done" /\ hcalls[c].client = "ok"
                    /\ hcalls[c].promise = "resolved") =>
                hcalls[c].errorAfter = NoError

\* the first call failed and left its error; the second started after it
\* and resolved with the error cell back at null
C25_Witness ==
    /\ hcalls[1].pc = "done"
    /\ hcalls[1].client = "failed"
    /\ hcalls[1].errorAfter # NoError
    /\ hcalls[2].after = {1}
    /\ hcalls[2].pc = "done"
    /\ hcalls[2].promise = "resolved"
    /\ Unraced(2)
    /\ error = NoError

\* the own keys of a table
KeysOf(table) == {table[i].key : i \in 1..Len(table)}

\* the display string the table lists for a key
ListedFor(table, k) == table[CHOOSE i \in 1..Len(table) : table[i].key = k].value

\* C26, display tables: getPayStateString and getPayTypeString return the
\* mapped display string for every listed code and the unknown sentinel for
\* every other number.
C26_DisplayTablesTotal ==
    /\ (tblIn.kind = "pay_state" /\ tblIn.value.type = "number"
            /\ tblOut.stateString # Undefined) =>
        tblOut.stateString =
            IF ToString(tblIn.value.num) \in KeysOf(PayStateStrings)
            THEN ListedFor(PayStateStrings, ToString(tblIn.value.num))
            ELSE UnknownLabel
    /\ (tblIn.kind = "pay_type" /\ tblOut.typeString # Undefined) =>
        tblOut.typeString =
            IF ToString(tblIn.value.num) \in KeysOf(PayTypeStrings)
            THEN ListedFor(PayTypeStrings, ToString(tblIn.value.num))
            ELSE UnknownLabel

\* C26, error messages: getPayAppErrorMessage returns the listed text for a
\* listed code and the unknown-error text for every unlisted code.
C26_ErrorMessagesTotal ==
    (tblIn.kind = "code" /\ tblOut.message # Undefined) =>
        tblOut.message =
            IF tblIn.value.str \in KeysOf(PAYAPP_ERROR_MESSAGES)
            THEN ListedFor(PAYAPP_ERROR_MESSAGES, tblIn.value.str)
            ELSE UnknownErrorText

\* C26: the classification tables never fail on an unrecognized provider
\* code: the display tables and the error-message table each return the
\* listed string for a listed code and their fallback for every other one.
C26_TablesNeverFail == C26_DisplayTablesTotal /\ C26_ErrorMessagesTotal

\* every classifier has answered for the drawn pay_state
Classified ==
    /\ tblIn.kind = "pay_state"
    /\ tblOut.eventType # Undefined
    /\ tblOut.completed # Undefined
    /\ tblOut.cancelled # Undefined
    /\ tblOut.stateString # Undefined

\* the three classifiers agree on the drawn pay_state
Agreement ==
    /\ (tblOut.eventType = Str("payment.completed")) <=> (tblOut.completed = Bool(TRUE))
    /\ (tblOut.eventType = Str("payment.cancelled")) <=> (tblOut.cancelled = Bool(TRUE))
    /\ (tblOut.eventType = Str("payment.unknown")) <=> (tblOut.stateString = UnknownLabel)
    /\ ~(tblOut.completed = Bool(TRUE) /\ tblOut.cancelled = Bool(TRUE))

\* C30: the three classifiers agree on every pay_state: getEventType
\* returns payment.completed exactly when isPaymentCompleted is true,
\* payment.cancelled exactly when isPaymentCancelled is true, and
\* payment.unknown exactly when getPayStateString returns the unknown
\* sentinel; no pay_state is both completed and cancelled.
C30_ClassifiersAgree == Classified => Agreement

\* C30 on the pay_state values of the declared type: the classifiers agree
\* on every number
C30_ClassifiersAgreeOnNumbers ==
    (Classified /\ tblIn.value.type = "number") => Agreement

\* a step of call c of process that changes the processed-keys set adds the
\* dedup key of the call's feedback, on the path where validation passed,
\* the key was absent and dispatch completed without throwing
C27_OnlySuccessAddsKey ==
    \A c \in Calls :
        (calls'[c] # calls[c] /\ processedKeys' # processedKeys) =>
            LET r == calls'[c]
            IN  /\ processedKeys' = processedKeys \cup {generateFeedbackKey(r.fb)}
                /\ r.fb.userid = "merchant" /\ r.fb.linkkey = "key" /\ r.fb.linkval = "val"
                /\ generateFeedbackKey(r.fb) \notin r.keysBefore
                /\ ~r.dup
                /\ ~r.threw
                /\ r.inv["onError"] = 0
                /\ r.pc = "done"
                /\ r.result = "SUCCESS"

\* a step in which a call returns "ERROR" or takes the duplicate
\* short-circuit leaves the set as it was
C27_ErrorAndDuplicateKeepSet ==
    \A c \in Calls :
        (calls[c].pc # "done" /\ calls'[c].pc = "done"
            /\ (calls'[c].result = "ERROR" \/ calls'[c].dup)) =>
            processedKeys' = processedKeys

\* every key in the set belongs to a feedback that carried the configured
\* credentials
C27_KeysAreCredentialed ==
    \A k \in processedKeys :
        \E c \in Calls :
            /\ Processed(c)
            /\ CredentialsMatch(c)
            /\ generateFeedbackKey(calls[c].fb) = k

\* C27: process changes the processed-keys set only by adding the dedup
\* key of the feedback it was given, and only on the path where validation
\* passed, the key was absent and dispatch completed without throwing;
\* every call that returns "ERROR" or takes the duplicate short-circuit
\* leaves the set exactly as it was; hence every key in the set belongs to
\* a feedback that carried the configured credentials.
C27_KeysOnlyFromSuccess ==
    /\ [][C27_OnlySuccessAddsKey]_vars
    /\ [][C27_ErrorAndDuplicateKeepSet]_vars
    /\ []C27_KeysAreCredentialed

\* a call whose handler rejected returned "ERROR" and left the set empty;
\* the next call completed its dispatch and its key is the only one
C27_Witness ==
    /\ calls[1].pc = "done"
    /\ calls[1].threw
    /\ calls[1].result = "ERROR"
    /\ ~cleared
    /\ calls[2].keysBefore = {}
    /\ calls[2].pc = "done"
    /\ calls[2].awaiting # "none"
    /\ calls[2].marked
    /\ processedKeys = {generateFeedbackKey(calls[2].fb)}

\* C28: for one request handled by the createWebhookHandler endpoint, the
\* onError callback is invoked at most once, whatever the event handlers
\* and onError itself do (including onError throwing).
C28_OnErrorAtMostOncePerRequest ==
    \A c \in Calls :
        (mode = "endpoint" /\ calls[c].pc # "idle") => calls[c].inv["onError"] <= 1

\* C29: every record returned by callAPI has state "1"; a response whose
\* body has no state field, or a state other than "1", never reaches the
\* caller as a successful result.
C29_ReturnedRecordsHaveStateOne ==
    (apiPc = "done" /\ apiOutcome.kind = "returned") =>
        /\ HasKey(apiOutcome.result, "state")
        /\ Get(apiOutcome.result, "state") = Str("1")

C33_OutcomesMutuallyExclusive ==
    \A c \in HookCalls :
        (hook.kind # "none" /\ hcalls[c].pc = "done"
            /\ hcalls[c].action \in {"requestPaymentAPI", "registerBill", "cancelPayment"}) =>
            /\ (hcalls[c].onErrorArgs # <<>>) => hcalls[c].client = "failed"
            /\ (hcalls[c].errorAfter # NoError /\ Unraced(c)) => hcalls[c].client = "failed"
            /\ (hcalls[c].client = "ok") => hcalls[c].promise = "resolved"
            /\ ~(hcalls[c].onSuccessCalls > 0 /\ hcalls[c].onErrorArgs # <<>>)

\* C31: every loadPayAppSDK call eventually settles (resolves or rejects),
\* provided the script element eventually fires load or error, also a call
\* made after an earlier script tag has already loaded or already failed;
\* so usePayApp.loadSDK always returns isLoading to false.
C31_EveryLoadSettles ==
    /\ \A c \in LoadCalls :
        (loadCalls[c].promise = "pending") ~> (loadCalls[c].promise \in {"resolved", "rejected"})
    /\ isLoading ~> ~isLoading

====
